---------------------------- MODULE Spec2Model ----------------------------
(***************************************************************************)
(* A model of pylcp's block Hamiltonian (src/pylcp/hamiltonian.py) and of  *)
(* the optical Bloch equation operator builder (src/obe.py).               *)
(*                                                                         *)
(* Numbers are Gaussian integers <<re, im>>: every input matrix of the     *)
(* model has integer real and imaginary parts, and the operations modelled *)
(* (sums, products, conjugates, halves of even values) stay inside them.   *)
(* A matrix is a sequence of rows; sequences are 1-based, so the ordinal   *)
(* and state indices of the model are the source's indices plus one.       *)
(* A manifold label is a string; the element label '<a|H_0|a>' is the      *)
(* triple <<"a", "H_0", "a">> and the transition key 'a->b' is the pair    *)
(* <<"a", "b">>.  A Python dict is a set of <<key, value>> pairs with at   *)
(* most one pair per key.                                                  *)
(***************************************************************************)
EXTENDS Integers, Sequences, FiniteSets, TLC

VARIABLES ham, rot, last, ret, obe, job

vars == <<ham, rot, last, ret, obe, job>>

(***************************************************************************)
(* Bounds of the model.                                                    *)
(***************************************************************************)
MaxManifolds == 2
MaxDim == 2
\* The number of calls made on the hamiltonian object
MaxCalls == 4
\* The number of calls made on a constructed obe object
MaxObeCalls == 3

Labels == {"g", "e"}
Dims == 1..MaxDim

(***************************************************************************)
(* Complex arithmetic on Gaussian integers.                                *)
(***************************************************************************)
CZero == <<0, 0>>
COne == <<1, 0>>
CI == <<0, 1>>
CAdd(a, b) == <<a[1] + b[1], a[2] + b[2]>>
CSub(a, b) == <<a[1] - b[1], a[2] - b[2]>>
CNeg(a) == <<0 - a[1], 0 - a[2]>>
CMul(a, b) == <<a[1] * b[1] - a[2] * b[2], a[1] * b[2] + a[2] * b[1]>>
CConj(a) == <<a[1], 0 - a[2]>>
CReal(a) == <<a[1], 0>>
CScale(k, a) == <<k * a[1], k * a[2]>>
\* 0.5*z for a value z whose parts are even
CHalf(a) == <<a[1] \div 2, a[2] \div 2>>
abs2(a) == a[1] * a[1] + a[2] * a[2]

RECURSIVE SumSeq(_)
SumSeq(s) == IF Len(s) = 0 THEN 0 ELSE s[1] + SumSeq(Tail(s))

RECURSIVE CSumSeq(_)
CSumSeq(s) == IF Len(s) = 0 THEN CZero ELSE CAdd(s[1], CSumSeq(Tail(s)))

Prefix(s, k) == [i \in 1..k |-> s[i]]

\* A local name assigned once: v is evaluated once and F applied to its value
LetValue(v, F(_)) == CHOOSE y \in {F(x) : x \in {v}} : TRUE

SetMax(S) == CHOOSE x \in S : \A y \in S : y <= x
SetMin(S) == CHOOSE x \in S : \A y \in S : x <= y

(***************************************************************************)
(* Matrices.                                                               *)
(***************************************************************************)
Rows(M) == Len(M)
Cols(M) == IF Len(M) = 0 THEN 0 ELSE Len(M[1])
Zeros(n, m) == [i \in 1..n |-> [j \in 1..m |-> CZero]]
Eye(n) == [i \in 1..n |-> [j \in 1..n |-> IF i = j THEN COne ELSE CZero]]
Diag(d) == [i \in 1..Len(d) |-> [j \in 1..Len(d) |-> IF i = j THEN d[i] ELSE CZero]]
Diagonal(M) == [i \in 1..Rows(M) |-> M[i][i]]
Transpose(M) == [i \in 1..Cols(M) |-> [j \in 1..Rows(M) |-> M[j][i]]]
MatConj(M) == [i \in 1..Rows(M) |-> [j \in 1..Cols(M) |-> CConj(M[i][j])]]
MatReal(M) == [i \in 1..Rows(M) |-> [j \in 1..Cols(M) |-> CReal(M[i][j])]]
ConjT(M) == Transpose(MatConj(M))
MatAdd(A, B) == [i \in 1..Rows(A) |-> [j \in 1..Cols(A) |-> CAdd(A[i][j], B[i][j])]]
MatSub(A, B) == [i \in 1..Rows(A) |-> [j \in 1..Cols(A) |-> CSub(A[i][j], B[i][j])]]
MatScale(c, A) == [i \in 1..Rows(A) |-> [j \in 1..Cols(A) |-> CMul(c, A[i][j])]]
MatHalf(A) == [i \in 1..Rows(A) |-> [j \in 1..Cols(A) |-> CHalf(A[i][j])]]
MatMul(A, B) ==
  [i \in 1..Rows(A) |-> [j \in 1..Cols(B) |->
     CSumSeq([k \in 1..Cols(A) |-> CMul(A[i][k], B[k][j])])]]
\* np.count_nonzero(M - np.diag(np.diagonal(M))) == 0
IsDiagonalMatrix(M) ==
  \A i \in 1..Rows(M) : \A j \in 1..Cols(M) : i # j => M[i][j] = CZero

(***************************************************************************)
(* Python dicts as sets of <<key, value>> pairs.                           *)
(***************************************************************************)
DictKeys(d) == {p[1] : p \in d}
DictGet(d, k) == (CHOOSE p \in d : p[1] = k)[2]
DictSet(d, k, v) == {p \in d : p[1] # k} \cup {<<k, v>>}


(***************************************************************************)
(* hamiltonian.block and hamiltonian.vector_block.  The field matrix is a  *)
(* sequence of matrices: one matrix for a block, the components q = -1, 0, *)
(* +1 for a vector_block.  A cell of the blocks array is a sequence of     *)
(* blocks: <<>> is None, <<b>> the block object b, <<b0, b1>> a tuple.     *)
(***************************************************************************)
\* block.check_diagonality
check_diagonality(M) ==
  IF Rows(M) = Cols(M) THEN IsDiagonalMatrix(M) ELSE FALSE

\* vector_block.check_diagonality: looks at the q = 0 component only
vector_check_diagonality(M3) ==
  IF Rows(M3[2]) = Cols(M3[2]) THEN IsDiagonalMatrix(M3[2]) ELSE FALSE

block(label, M) ==
  [cls |-> "block", label |-> label, diagonal |-> check_diagonality(M),
   matrix |-> <<M>>, parameters |-> {}, n |-> Rows(M), m |-> Cols(M)]

vector_block(label, M3) ==
  [cls |-> "vector_block", label |-> label,
   diagonal |-> vector_check_diagonality(M3),
   matrix |-> M3, parameters |-> {}, n |-> Rows(M3[2]), m |-> Cols(M3[2])]

\* The entry [r, c] of super_M after super_M[i:i+n, j:j+m] = M; i, j are the
\* source's 0-based offsets
entry_in_place(M, i, j, r, c) ==
  IF r > i /\ r <= i + Rows(M) /\ c > j /\ c <= j + Cols(M)
  THEN M[r - i][c - j] ELSE CZero

\* block.return_block_in_place
return_block_in_place(M, i, j, N) ==
  [r \in 1..N |-> [c \in 1..N |-> entry_in_place(M, i, j, r, c)]]

\* vector_block.return_block_in_place
vector_return_block_in_place(M3, i, j, N) ==
  [q \in 1..3 |-> return_block_in_place(M3[q], i, j, N)]

(***************************************************************************)
(* The hamiltonian object.  attrs is the set of the attributes that exist  *)
(* on the object besides those __init__ creates (hasattr).                 *)
(***************************************************************************)
NewHamiltonian ==
  [blocks |-> <<>>, state_labels |-> <<>>, ns |-> <<>>, laser_keys |-> {},
   attrs |-> {}, n |-> 0, diagonal |-> <<>>,
   H_0 |-> <<>>, mu_q |-> <<>>, d_q_bare |-> {}, d_q_star |-> {},
   d_q |-> <<>>, mu |-> <<>>, d |-> <<>>, U |-> <<>>]

Raise(err, h) == [res |-> err, h |-> h]
Return(h) == [res |-> "ok", h |-> h]

NBlocks(h) == Len(h.blocks)
Cell(blocks, ind) == blocks[ind[1]][ind[2]]
SetCell(blocks, ind, cell) ==
  [blocks EXCEPT ![ind[1]] = [@ EXCEPT ![ind[2]] = cell]]
\* np.diag(self.blocks)
DiagCells(blocks) == [ii \in 1..Len(blocks) |-> blocks[ii][ii]]

\* __make_elem_label
make_elem_label(type, state_label) ==
  IF type = "d_q" THEN <<state_label[1], type, state_label[2]>>
  ELSE <<state_label, type, state_label>>

\* __search_elem_label: the break leaves the inner loop only, so the last
\* row that holds the label wins, with its first matching column
CellHasLabel(cell, label) == \E k \in 1..Len(cell) : cell[k].label = label

search_elem_label_tuples_only(blocks, label) ==
  LET hit(ii) == {jj \in 1..Len(blocks[ii]) :
                    Len(blocks[ii][jj]) = 2 /\ CellHasLabel(blocks[ii][jj], label)}
      rows == {ii \in 1..Len(blocks) : hit(ii) # {}}
  IN IF rows = {} THEN <<>>
     ELSE <<SetMax(rows), SetMin(hit(SetMax(rows)))>>

search_elem_label(blocks, label) ==
  LET hit(ii) == {jj \in 1..Len(blocks[ii]) : CellHasLabel(blocks[ii][jj], label)}
      rows == {ii \in 1..Len(blocks) : hit(ii) # {}}
  IN IF rows = {} THEN <<>>
     ELSE <<SetMax(rows), SetMin(hit(SetMax(rows)))>>

\* __add_new_row_and_column
add_new_row_and_column(blocks) ==
  LET N == Len(blocks)
  IN [ii \in 1..(N + 1) |-> [jj \in 1..(N + 1) |->
        IF ii <= N /\ jj <= N THEN blocks[ii][jj] ELSE <<>>]]

\* __recompute_number_of_states
recompute_number_of_states(h) ==
  [h EXCEPT !.n = SumSeq([ii \in 1..NBlocks(h) |-> h.blocks[ii][ii][1].n]),
            !.attrs = @ \cup {"n"}]

\* __check_diagonal_submatrices_are_themselves_diagonal
check_diagonal_submatrices(h) ==
  [h EXCEPT !.diagonal = [ii \in 1..NBlocks(h) |->
                            LET c == h.blocks[ii][ii]
                            IN IF Len(c) = 2
                               THEN c[1].diagonal /\ c[2].diagonal
                               ELSE c[1].diagonal],
            !.attrs = @ \cup {"diagonal"}]

add_H_0_block(h, state_label, H_0) ==
  IF Rows(H_0) # Cols(H_0) THEN Raise("ValueError", h)
  ELSE
    LET ind_H_0 == search_elem_label(h.blocks, make_elem_label("H_0", state_label))
        ind_mu_q == search_elem_label(h.blocks, make_elem_label("mu_q", state_label))
        label == make_elem_label("H_0", state_label)
        finish(g) == LetValue(g, LAMBDA g1 :
                       LetValue(recompute_number_of_states(g1), LAMBDA g2 :
                         Return(check_diagonal_submatrices(g2))))
    IN IF ind_H_0 = <<>> /\ ind_mu_q = <<>> THEN
         LET grown == add_new_row_and_column(h.blocks)
             N == Len(grown)
         IN finish([h EXCEPT !.blocks = SetCell(grown, <<N, N>>, <<block(label, H_0)>>),
                             !.state_labels = Append(@, state_label),
                             !.ns = Append(@, Rows(H_0))])
       ELSE IF ind_mu_q # <<>> THEN
         \* self.blocks[ind_H_0].n: blocks[()] is the array itself and a
         \* tuple cell is a tuple, neither of which has an attribute n
         IF ind_H_0 = <<>> THEN Raise("AttributeError", h)
         ELSE IF Len(Cell(h.blocks, ind_H_0)) # 1 THEN Raise("AttributeError", h)
         ELSE IF Rows(H_0) # Cell(h.blocks, ind_H_0)[1].n THEN Raise("ValueError", h)
         ELSE finish([h EXCEPT !.blocks =
                        SetCell(@, ind_mu_q, <<block(label, H_0)>> \o Cell(h.blocks, ind_mu_q))])
       ELSE Raise("ValueError", h)

add_mu_q_block(h, state_label, mu_q, muB) ==
  IF Len(mu_q) # 3 THEN Raise("ValueError", h)
  ELSE IF Rows(mu_q[2]) # Cols(mu_q[2]) THEN Raise("ValueError", h)
  ELSE
    LET ind_H_0 == search_elem_label(h.blocks, make_elem_label("H_0", state_label))
        ind_mu_q == search_elem_label(h.blocks, make_elem_label("mu_q", state_label))
        label == make_elem_label("mu_q", state_label)
        new_block == [vector_block(label, mu_q) EXCEPT !.parameters = {<<"mu_B", muB>>}]
        finish(g) == LetValue(g, LAMBDA g1 :
                       LetValue(recompute_number_of_states(g1), LAMBDA g2 :
                         Return(check_diagonal_submatrices(g2))))
    IN IF ind_H_0 = <<>> /\ ind_mu_q = <<>> THEN
         LET grown == add_new_row_and_column(h.blocks)
             N == Len(grown)
         IN finish([h EXCEPT !.blocks = SetCell(grown, <<N, N>>, <<new_block>>),
                             !.state_labels = Append(@, state_label),
                             !.ns = Append(@, Rows(mu_q[2]))])
       ELSE IF ind_H_0 # <<>> THEN
         \* self.blocks[ind_H_0].n: a tuple cell has no attribute n
         IF Len(Cell(h.blocks, ind_H_0)) # 1 THEN Raise("AttributeError", h)
         ELSE IF Rows(mu_q[2]) # Cell(h.blocks, ind_H_0)[1].n THEN Raise("ValueError", h)
         ELSE finish([h EXCEPT !.blocks =
                        SetCell(@, ind_H_0, Cell(h.blocks, ind_H_0) \o <<new_block>>)])
       ELSE Raise("ValueError", h)

\* The label lookup add_d_q_block does for each of its two labels
manifold_of_label(h, lbl) ==
  LET ind_H_0 == search_elem_label(h.blocks, make_elem_label("H_0", lbl))
      ind_mu_q == search_elem_label(h.blocks, make_elem_label("mu_q", lbl))
      bad(e) == [err |-> e, ind |-> 0, n |-> 0]
      good(i, k) == [err |-> "ok", ind |-> i, n |-> k]
  IN IF ind_H_0 = <<>> /\ ind_mu_q = <<>> THEN bad("ValueError")
     ELSE IF ind_H_0 = <<>> THEN
       IF Len(Cell(h.blocks, ind_mu_q)) = 1
       THEN good(ind_mu_q[1], Cell(h.blocks, ind_mu_q)[1].n)
       ELSE bad("AttributeError")
     ELSE IF ind_mu_q = <<>> THEN
       IF Len(Cell(h.blocks, ind_H_0)) = 1
       THEN good(ind_H_0[1], Cell(h.blocks, ind_H_0)[1].n)
       ELSE bad("AttributeError")
     ELSE
       IF Len(Cell(h.blocks, ind_H_0)) = 2
       THEN good(ind_H_0[1], Cell(h.blocks, ind_H_0)[1].n)
       ELSE bad("TypeError")

\* np.einsum("ijk->ikj", d_q.conj()) and the list of np.conjugate(d_q[ii].T)
Dagger3_without_conj(d_q) == [q \in 1..3 |-> Transpose(d_q[q])]

Dagger3(d_q) == [q \in 1..3 |-> ConjT(d_q[q])]

\* The check of the size of d_q
d_q_size_first_only(d_q, n, m) == Rows(d_q[1]) # n

d_q_size_is_wrong(d_q, n, m) == Rows(d_q[1]) # n \/ Cols(d_q[1]) # m

\* (label1, label2) = (label2, label1) when d_q^dagger was given
flipped_labels_kept(flip, label1, label2) == <<label1, label2>>

flipped_labels(flip, label1, label2) ==
  IF flip THEN <<label2, label1>> ELSE <<label1, label2>>

add_d_q_block(h, label1, label2, d_q, k, gamma) ==
  LetValue(manifold_of_label(h, label1), LAMBDA m1 :
  LetValue(manifold_of_label(h, label2), LAMBDA m2 :
     IF m1.err # "ok" THEN Raise(m1.err, h)
     ELSE IF m2.err # "ok" THEN Raise(m2.err, h)
     \* the message of this error reads the local label before it is bound
     ELSE IF d_q_size_is_wrong(d_q, m1.n, m2.n) THEN Raise("UnboundLocalError", h)
     ELSE
       LET flip == m1.ind > m2.ind
           la == flipped_labels(flip, label1, label2)[1]
           lb == flipped_labels(flip, label1, label2)[2]
           ind == IF flip THEN <<m2.ind, m1.ind>> ELSE <<m1.ind, m2.ind>>
       IN LetValue(IF flip THEN Dagger3(d_q) ELSE d_q, LAMBDA dq :
          LetValue(Dagger3(dq), LAMBDA dagger :
            LET fwd == [vector_block(make_elem_label("d_q", <<la, lb>>), dq)
                          EXCEPT !.parameters = {<<"k", k>>, <<"gamma", gamma>>}]
                bwd == vector_block(make_elem_label("d_q", <<lb, la>>), dagger)
                b1 == SetCell(h.blocks, ind, <<fwd>>)
                b2 == SetCell(b1, <<ind[2], ind[1]>>, <<bwd>>)
            IN Return([h EXCEPT !.blocks = b2,
                                !.laser_keys = DictSet(@, <<la, lb>>, ind)])))))

\* hamiltonian.__init__(*args, muB, gamma, k): without arguments the empty
\* hamiltonian, with five the manifolds g and e and their dipole block
hamiltonian_init(args, muB, gamma, k) ==
  IF Len(args) = 5 THEN
    LetValue(add_H_0_block(NewHamiltonian, "g", args[1]), LAMBDA r1 :
      IF r1.res # "ok" THEN r1 ELSE
    LetValue(add_H_0_block(r1.h, "e", args[2]), LAMBDA r2 :
      IF r2.res # "ok" THEN r2 ELSE
    LetValue(add_mu_q_block(r2.h, "g", args[3], muB), LAMBDA r3 :
      IF r3.res # "ok" THEN r3 ELSE
    LetValue(add_mu_q_block(r3.h, "e", args[4], muB), LAMBDA r4 :
      IF r4.res # "ok" THEN r4 ELSE
    add_d_q_block(r4.h, "g", "e", args[5], k, gamma)))))
  ELSE IF Len(args) > 2 THEN Raise("ValueError", NewHamiltonian)
  ELSE IF Len(args) > 0 THEN Raise("NotImplementedError", NewHamiltonian)
  ELSE Return(NewHamiltonian)

(***************************************************************************)
(* make_full_matrices and return_full_H.                                   *)
(***************************************************************************)
Vec3Add(A, B) == [q \in 1..3 |-> MatAdd(A[q], B[q])]
Vec3Scale(c, A) == [q \in 1..3 |-> MatScale(c, A[q])]
Zeros3(n) == [q \in 1..3 |-> Zeros(n, n)]

HasParam(b, name) == name \in DictKeys(b.parameters)

\* The loop over np.diag(self.blocks): acc carries self.H_0, self.mu_q,
\* the running offset n and the exception that ended the loop, if any
RECURSIVE diag_accumulate(_, _, _)
diag_accumulate(h, ii, acc) ==
  IF ii > NBlocks(h) \/ acc.err # "ok" THEN acc
  ELSE
    LET c == h.blocks[ii][ii]
        \* self.H_0 += block.return_block_in_place(n, n, self.n)
        plus_H_0(b) == [i \in 1..h.n |-> [j \in 1..h.n |->
                          CAdd(acc.H_0[i][j], entry_in_place(b.matrix[1], acc.n, acc.n, i, j))]]
        \* self.mu_q += block.parameters['mu_B']*block.return_block_in_place(n, n, self.n)
        plus_mu_q(b) == [q \in 1..3 |-> [i \in 1..h.n |-> [j \in 1..h.n |->
                          CAdd(acc.mu_q[q][i][j],
                               CScale(DictGet(b.parameters, "mu_B"),
                                      entry_in_place(b.matrix[q], acc.n, acc.n, i, j)))]]]
    IN IF Len(c) = 0 THEN [acc EXCEPT !.err = "TypeError"]
       ELSE IF Len(c) = 1 /\ c[1].cls = "vector_block" THEN
         IF HasParam(c[1], "mu_B")
         THEN LetValue([acc EXCEPT !.mu_q = plus_mu_q(c[1]), !.n = @ + c[1].n],
                       LAMBDA acc2 : diag_accumulate(h, ii + 1, acc2))
         ELSE [acc EXCEPT !.err = "KeyError"]
       ELSE IF Len(c) = 1 THEN
         LetValue([acc EXCEPT !.H_0 = plus_H_0(c[1]), !.n = @ + c[1].n],
                  LAMBDA acc2 : diag_accumulate(h, ii + 1, acc2))
       ELSE
         IF HasParam(c[2], "mu_B")
         THEN LetValue([acc EXCEPT !.H_0 = plus_H_0(c[1]), !.mu_q = plus_mu_q(c[2]),
                                   !.n = @ + c[1].n],
                       LAMBDA acc2 : diag_accumulate(h, ii + 1, acc2))
         ELSE [acc EXCEPT !.H_0 = plus_H_0(c[1]), !.err = "KeyError"]

\* key = self.state_labels[ii] + '->' + self.state_labels[jj]
d_q_bare_key_reversed(h, ii, jj) == <<h.state_labels[jj], h.state_labels[ii]>>

d_q_bare_key(h, ii, jj) == <<h.state_labels[ii], h.state_labels[jj]>>

\* The double loop that fills self.d_q_bare, cell k of the row-major order
RECURSIVE d_q_bare_loop(_, _, _)
d_q_bare_loop(h, k, dict) ==
  LET N == NBlocks(h)
      ii == ((k - 1) \div N) + 1
      jj == ((k - 1) % N) + 1
  IN IF k > N * N THEN dict
     ELSE IF jj > ii /\ h.blocks[ii][jj] # <<>>
     THEN LetValue(DictSet(dict, d_q_bare_key(h, ii, jj),
                           vector_return_block_in_place(h.blocks[ii][jj][1].matrix,
                                                        SumSeq(Prefix(h.ns, ii - 1)),
                                                        SumSeq(Prefix(h.ns, jj - 1)), h.n)),
                   LAMBDA dict2 : d_q_bare_loop(h, k + 1, dict2))
     ELSE d_q_bare_loop(h, k + 1, dict)

\* self.d_q += self.d_q_bare[key] + self.d_q_star[key], over the keys
RECURSIVE d_q_sum(_, _, _, _)
d_q_sum(keys, bare, star, acc) ==
  IF keys = {} THEN acc
  ELSE LET key == CHOOSE y \in keys : TRUE
       IN LetValue(DictGet(bare, key), LAMBDA b :
          LetValue(DictGet(star, key), LAMBDA c :
          LetValue([q \in 1..3 |-> [i \in 1..Len(acc[q]) |-> [j \in 1..Len(acc[q]) |->
                      CAdd(acc[q][i][j], CAdd(b[q][i][j], c[q][i][j]))]]],
                   LAMBDA acc2 : d_q_sum(keys \ {key}, bare, star, acc2))))

\* common.spherical2cart (not in the sources given): x and y carry the factor
\* 1/sqrt(2), which the model leaves out: x*sqrt(2) = A[-1] - A[+1],
\* y*sqrt(2) = i*(A[-1] + A[+1]), z = A[0]
spherical2cart(A) ==
  <<[i \in 1..Len(A[1]) |-> [j \in 1..Len(A[1]) |-> CSub(A[1][i][j], A[3][i][j])]],
    [i \in 1..Len(A[1]) |-> [j \in 1..Len(A[1]) |-> CMul(CI, CAdd(A[1][i][j], A[3][i][j]))]],
    A[2]>>

\* self.H_0 = np.zeros((self.n, self.n), dtype='complex128')
initial_H_0_kept(h) == IF "H_0" \in h.attrs THEN h.H_0 ELSE Zeros(h.n, h.n)

initial_H_0(h) == Zeros(h.n, h.n)

make_full_matrices(h) ==
  IF "n" \notin h.attrs THEN Raise("AttributeError", h)
  ELSE
    LetValue([H_0 |-> initial_H_0(h), mu_q |-> Zeros3(h.n), n |-> 0, err |-> "ok"], LAMBDA acc0 :
    LetValue(diag_accumulate(h, 1, acc0), LAMBDA acc :
    LetValue([h EXCEPT !.H_0 = acc.H_0, !.mu_q = acc.mu_q,
                       !.attrs = @ \cup {"H_0", "mu_q"}], LAMBDA h1 :
      IF acc.err # "ok" THEN Raise(acc.err, h1)
      ELSE
        LetValue(d_q_bare_loop(h, 1, {}), LAMBDA bare :
        LetValue({<<p[1], Dagger3(p[2])>> : p \in bare}, LAMBDA star :
        LetValue(d_q_sum(DictKeys(bare), bare, star, Zeros3(h.n)), LAMBDA dq :
          Return([h1 EXCEPT !.d_q_bare = bare, !.d_q_star = star, !.d_q = dq,
                            !.mu = spherical2cart(acc.mu_q),
                            !.d = spherical2cart(dq),
                            !.attrs = @ \cup {"d_q_bare", "d_q_star", "d_q", "mu", "d"}])))))))

\* Eq is [list |-> TRUE, vec |-> a field vector, map |-> {}] or
\* [list |-> FALSE, vec |-> <<>>, map |-> a dict of field vectors]
EqList(v) == [list |-> TRUE, vec |-> v, map |-> {}]
EqDict(d) == [list |-> FALSE, vec |-> <<>>, map |-> d]

\* The entry [i, j] of what the loop over Eq.keys() subtracts for one key:
\* the sum over ii of 0.5*(-1)**q*d_q_bare[key][ii]*Eq[key][2-ii] +
\* 0.5*(-1)**q*d_q_star[key][ii]*conj(Eq[key][2-ii])
dipole_coupling(h, key, E, i, j) ==
  LET bare == DictGet(h.d_q_bare, key)
      star == DictGet(h.d_q_star, key)
      sgn(ii) == IF ii = 2 THEN 1 ELSE 0 - 1
      \* numpy stretches an axis of length 1 over the rows and columns of H
      at(M, a, b) == M[IF Rows(M) = 1 THEN 1 ELSE a][IF Cols(M) = 1 THEN 1 ELSE b]
      term(ii) == CAdd(CHalf(CScale(sgn(ii), CMul(at(bare[ii], i, j), E[4 - ii]))),
                       CHalf(CScale(sgn(ii), CMul(at(star[ii], i, j), CConj(E[4 - ii])))))
  IN CAdd(term(1), CAdd(term(2), term(3)))

\* The loop over Eq.keys(), for the entry [i, j]
RECURSIVE dipole_coupling_sum(_, _, _, _, _)
dipole_coupling_sum(h, keys, dict, i, j) ==
  IF keys = {} THEN CZero
  ELSE LET key == CHOOSE y \in keys : TRUE
       IN CAdd(dipole_coupling(h, key, DictGet(dict, key), i, j),
               dipole_coupling_sum(h, keys \ {key}, dict, i, j))

\* The entry [i, j] of np.tensordot(self.mu_q, np.conjugate(Bq), axes=(0, 0))
tensordot_conj(mu_q, Bq, i, j) ==
  CAdd(CMul(mu_q[1][i][j], CConj(Bq[1])),
       CAdd(CMul(mu_q[2][i][j], CConj(Bq[2])), CMul(mu_q[3][i][j], CConj(Bq[3]))))

\* Eq = {'g->e':Eq} for a list or an array
promote_to_dictionary_reversed(Eq) ==
  IF Eq.list THEN {<<(<<"e", "g">>), Eq.vec>>} ELSE Eq.map

promote_to_dictionary(Eq) ==
  IF Eq.list THEN {<<(<<"g", "e">>), Eq.vec>>} ELSE Eq.map

\* H -= ... works in place: the (N, N) array H takes an operand whose axes
\* have length N or 1, and numpy raises a ValueError for any other shape
broadcasts_into(M3, N) ==
  /\ Rows(M3[1]) \in {1, N}
  /\ Cols(M3[1]) \in {1, N}

\* return_full_H once self.H_0 exists
assemble_full_H(g, Eq, Bq) ==
  LET none == <<>>
      dict == promote_to_dictionary(Eq)
      keys == DictKeys(dict)
      N == Rows(g.H_0)
  IN IF keys # {} /\ "d_q_bare" \notin g.attrs
     THEN [res |-> "AttributeError", h |-> g, H |-> none]
     ELSE IF ~(keys \subseteq DictKeys(g.d_q_bare))
     THEN [res |-> "KeyError", h |-> g, H |-> none]
     ELSE IF \E key \in keys : ~broadcasts_into(DictGet(g.d_q_bare, key), N)
     THEN [res |-> "ValueError", h |-> g, H |-> none]
     ELSE [res |-> "ok", h |-> g,
           H |-> [i \in 1..N |-> [j \in 1..N |->
                    CSub(CSub(g.H_0[i][j], tensordot_conj(g.mu_q, Bq, i, j)),
                         dipole_coupling_sum(g, keys, dict, i, j))]]]

return_full_H(h, Eq, Bq) ==
  IF "H_0" \in h.attrs THEN assemble_full_H(h, Eq, Bq)
  ELSE LetValue(make_full_matrices(h), LAMBDA made :
         IF made.res # "ok" THEN [res |-> made.res, h |-> made.h, H |-> <<>>]
         ELSE assemble_full_H(made.h, Eq, Bq))

(***************************************************************************)
(* diag_static_field.  rot is the object self.rotated_hamiltonian refers   *)
(* to.  np.linalg.eig is modelled where its result is exact: for a         *)
(* diagonal matrix the eigenvalues are the diagonal and the eigenvectors   *)
(* the unit vectors (EigExact is the guard of the action).                 *)
(***************************************************************************)
\* The matrix H the loop over the diagonal blocks forms for one cell
field_matrix(c, B) ==
  IF Len(c) = 2 THEN MatSub(c[1].matrix[1], MatScale(<<B, 0>>, c[2].matrix[2]))
  ELSE IF c[1].cls = "vector_block" THEN MatScale(<<0 - B, 0>>, c[1].matrix[2])
  ELSE c[1].matrix[1]

np_linalg_eig(H) == [Es |-> Diagonal(H), U |-> Eye(Rows(H))]

\* np.argsort of complex values: by real part, then by imaginary part, equal
\* values in their order
CLess(a, b) == a[1] < b[1] \/ (a[1] = b[1] /\ a[2] < b[2])

argsort(Es) ==
  LET n == Len(Es)
      pos(i) == 1 + Cardinality({j \in 1..n : CLess(Es[j], Es[i]) \/ (Es[j] = Es[i] /\ j < i)})
  IN [c \in 1..n |-> CHOOSE i \in 1..n : pos(i) = c]

\* self.rotated_hamiltonian.blocks[ii, jj].matrix = M (whole is TRUE) or
\* .matrix[kk] = M[kk] for the three kk (whole is FALSE)
set_rotated_matrix(st, ii, jj, M) ==
  IF st.rot.blocks = <<>> THEN [st EXCEPT !.err = "TypeError"]
  ELSE IF ii > Len(st.rot.blocks) \/ jj > Len(st.rot.blocks) THEN [st EXCEPT !.err = "IndexError"]
  ELSE IF Len(st.rot.blocks[ii][jj]) # 1 THEN [st EXCEPT !.err = "AttributeError"]
  ELSE [st EXCEPT !.rot.blocks[ii][jj][1].matrix = M]

\* The first loop: diagonalize or copy each diagonal block
RECURSIVE diagonalize_loop(_, _, _, _)
diagonalize_loop(h, B, ii, st) ==
  IF ii > NBlocks(h) \/ st.err # "ok" THEN st
  ELSE
    LetValue(field_matrix(h.blocks[ii][ii], B), LAMBDA H :
      IF ~h.diagonal[ii] \/ B < 0 THEN
        LetValue(np_linalg_eig(H), LAMBDA e :
          LetValue(argsort(e.Es), LAMBDA ind_e :
            LET Es == [k \in 1..Len(ind_e) |-> e.Es[ind_e[k]]]
                Usorted == [r \in 1..Rows(e.U) |-> [c \in 1..Len(ind_e) |-> e.U[r][ind_e[c]]]]
            IN IF ii > Len(st.U) THEN [st EXCEPT !.err = "IndexError"]
               ELSE IF \A k \in 1..Len(Es) : Es[k][2] = 0
               THEN LetValue(set_rotated_matrix([st EXCEPT !.U[ii] = Usorted], ii, ii,
                                                <<Diag([k \in 1..Len(Es) |-> CReal(Es[k])])>>),
                             LAMBDA st2 : diagonalize_loop(h, B, ii + 1, st2))
               ELSE [st EXCEPT !.U[ii] = Usorted, !.err = "ValueError"]))
      ELSE LetValue(set_rotated_matrix(st, ii, ii, <<H>>),
                    LAMBDA st2 : diagonalize_loop(h, B, ii + 1, st2)))

\* U[ii].T @ d_q[kk] @ U[jj] for the three kk
rotate_d_q(Ui, d_q, Uj) == [kk \in 1..3 |-> MatMul(MatMul(Transpose(Ui), d_q[kk]), Uj)]

\* The second loop: rotate the d_q of cell k of the row-major order
RECURSIVE rotate_loop(_, _, _, _)
rotate_loop(h, B, k, st) ==
  LET N == NBlocks(h)
      ii == ((k - 1) \div N) + 1
      jj == ((k - 1) % N) + 1
  IN IF k > N * N \/ st.err # "ok" THEN st
     ELSE IF jj > ii /\ h.blocks[ii][jj] # <<>>
             /\ (~h.diagonal[ii] \/ ~h.diagonal[jj] \/ B < 0)
     THEN IF jj > Len(st.U) THEN [st EXCEPT !.err = "IndexError"]
          ELSE
            LetValue(rotate_d_q(st.U[ii], h.blocks[ii][jj][1].matrix, st.U[jj]), LAMBDA d :
              LetValue(set_rotated_matrix(st, ii, jj, d), LAMBDA s1 :
                LetValue(IF s1.err = "ok" THEN set_rotated_matrix(s1, jj, ii, Dagger3(d)) ELSE s1,
                         LAMBDA s2 : rotate_loop(h, B, k + 1, s2))))
     ELSE rotate_loop(h, B, k + 1, st)

\* The branch taken when every block is diagonal and B >= 0
RECURSIVE eigenvalue_loop(_, _, _, _)
eigenvalue_loop(h, B, ii, st) ==
  IF ii > NBlocks(h) \/ st.err # "ok" THEN st
  ELSE LetValue(set_rotated_matrix(st, ii, ii, <<MatReal(field_matrix(h.blocks[ii][ii], B))>>),
                LAMBDA st2 : eigenvalue_loop(h, B, ii + 1, st2))

\* The construction of the empty rotated Hamiltonian
RECURSIVE rotated_add_H_0(_, _, _)
rotated_add_H_0(h, ii, r) ==
  IF ii > NBlocks(h) \/ r.res # "ok" THEN r
  ELSE LetValue(add_H_0_block(r.h, h.state_labels[ii], Zeros(h.ns[ii], h.ns[ii])),
                LAMBDA r2 : rotated_add_H_0(h, ii + 1, r2))

RECURSIVE rotated_add_d_q(_, _, _)
rotated_add_d_q(h, k, r) ==
  LET N == NBlocks(h)
      ii == ((k - 1) \div N) + 1
      jj == ((k - 1) % N) + 1
  IN IF k > N * N \/ r.res # "ok" THEN r
     ELSE IF jj > ii /\ h.blocks[ii][jj] # <<>>
     THEN LetValue(add_d_q_block(r.h, h.state_labels[ii], h.state_labels[jj],
                                 h.blocks[ii][jj][1].matrix, 1, 1),
                   LAMBDA r2 : rotated_add_d_q(h, k + 1, r2))
     ELSE rotated_add_d_q(h, k + 1, r)

\* The field argument is [isnum |-> whether it is a float or an int, val |-> its
\* value].  The result is [res, h, rot]; on "ok" the call returns the object rot.
EigExact(h, B) ==
  \A ii \in 1..NBlocks(h) :
     (~h.diagonal[ii] \/ B < 0) =>
        LET H == field_matrix(h.blocks[ii][ii], B)
        IN Rows(H) = Cols(H) /\ IsDiagonalMatrix(H)

diag_static_field(h, r, field) ==
  IF ~field.isnum THEN [res |-> "ValueError", h |-> h, rot |-> r]
  ELSE
    LET B == field.val
        fresh == "rotated_hamiltonian" \notin h.attrs
        h1 == [h EXCEPT !.attrs = @ \cup {"rotated_hamiltonian"}]
    IN LetValue(IF ~fresh THEN Return(r)
                ELSE IF h.blocks = <<>> THEN Raise("ValueError", NewHamiltonian)
                ELSE LetValue(rotated_add_H_0(h, 1, Return(NewHamiltonian)),
                              LAMBDA r1 : rotated_add_d_q(h, 1, r1)),
         LAMBDA built :
           IF built.res # "ok" THEN [res |-> built.res, h |-> h1, rot |-> built.h]
           ELSE IF h.blocks = <<>> THEN [res |-> "AttributeError", h |-> h1, rot |-> built.h]
           ELSE
             LetValue(IF "U" \in h1.attrs THEN h1
                      ELSE [h1 EXCEPT !.U = [ii \in 1..NBlocks(h) |-> Eye(h.ns[ii])],
                                      !.attrs = @ \cup {"U"}],
               LAMBDA h2 :
                 LetValue([U |-> h2.U, rot |-> built.h, err |-> "ok"], LAMBDA st0 :
                   LetValue(IF (\E ii \in 1..NBlocks(h) : ~h.diagonal[ii]) \/ B < 0
                            THEN LetValue(diagonalize_loop(h, B, 1, st0),
                                          LAMBDA st1 : rotate_loop(h, B, 1, st1))
                            ELSE eigenvalue_loop(h, B, 1, st0),
                     LAMBDA st :
                       [res |-> st.err, h |-> [h2 EXCEPT !.U = st.U], rot |-> st.rot]))))


(***************************************************************************)
(* The obe object (src/obe.py): the operator set ev_mat built from a       *)
(* hamiltonian.  The model covers the complex basis                        *)
(* (transform_into_re_im=False) with dense matrices; the laser beams are   *)
(* the set of their transition keys.                                       *)
(***************************************************************************)
\* The total number of states of a hamiltonian handed to obe
MaxStates == 3

\* obe.density_index, for 1-based ii, jj and a 1-based result
density_index(ii, jj, n) == (ii - 1) + (jj - 1) * n + 1
\* The state pair a flattened index addresses
row_of_index(r, n) == ((r - 1) % n) + 1
col_of_index(r, n) == ((r - 1) \div n) + 1

build_coherent_ev_submatrix_signs_exchanged(H, n) ==
  [r \in 1..(n * n) |-> [c \in 1..(n * n) |->
     LET ii == row_of_index(r, n)
         jj == col_of_index(r, n)
     IN CSumSeq([kk \in 1..n |->
          CSub(IF c = density_index(kk, jj, n) THEN CMul(CI, H[ii][kk]) ELSE CZero,
               IF c = density_index(ii, kk, n) THEN CMul(CI, H[kk][jj]) ELSE CZero)])]]

build_coherent_ev_submatrix_index_slip(H, n) ==
  [r \in 1..(n * n) |-> [c \in 1..(n * n) |->
     LET ii == row_of_index(r, n)
         jj == col_of_index(r, n)
     IN CSumSeq([kk \in 1..n |->
          CSub(IF c = density_index(ii, kk, n) THEN CMul(CI, H[jj][kk]) ELSE CZero,
               IF c = density_index(kk, jj, n) THEN CMul(CI, H[ii][kk]) ELSE CZero)])]]

\* obe.build_coherent_ev_submatrix: the entry [r, c] collects, over kk, the
\* += 1j*H[kk, jj] at column density_index(ii, kk) and the -= 1j*H[ii, kk]
\* at column density_index(kk, jj), for r = density_index(ii, jj)
build_coherent_ev_submatrix(H, n) ==
  [r \in 1..(n * n) |-> [c \in 1..(n * n) |->
     LET ii == row_of_index(r, n)
         jj == col_of_index(r, n)
     IN CSumSeq([kk \in 1..n |->
          CSub(IF c = density_index(ii, kk, n) THEN CMul(CI, H[kk][jj]) ELSE CZero,
               IF c = density_index(kk, jj, n) THEN CMul(CI, H[ii][kk]) ELSE CZero)])]]

\* range(sum(ns[:ll]), sum(ns[:ll+1])) for the 1-based manifold ll, 1-based states
manifold_states(ns, ll) ==
  (SumSeq(Prefix(ns, ll - 1)) + 1)..SumSeq(Prefix(ns, ll))

\* np.sum(np.sum(abs2(d_q[:, :ii, ii])))
state_decay_rate(d_q, ii) ==
  SumSeq([q \in 1..3 |-> SumSeq([j \in 1..(ii - 1) |-> abs2(d_q[q][j][ii])])])

rates_allclose_rtol_1e5(rates) ==
  LET c == Len(rates)
      S == SumSeq(rates)
      absdiff(r) == IF c * r >= S THEN c * r - S ELSE S - c * r
  IN \A k \in 1..c : absdiff(rates[k]) <= 100000 * S

\* np.allclose(rates, rate, atol=1e-7, rtol=1e-5) with rate = np.mean(rates):
\* |r - S/c| <= 1e-7 + 1e-5*|S/c| for every r, S the sum of the c rates
rates_allclose(rates) ==
  LET c == Len(rates)
      S == SumSeq(rates)
      absdiff(r) == IF c * r >= S THEN c * r - S ELSE S - c * r
  IN \A k \in 1..c : 10000000 * absdiff(rates[k]) <= c + 100 * S

\* The check of the decay rates that opens build_decay_ev: the manifolds
\* after the first, in order; the mean of equal integer rates is the rate
RECURSIVE decay_rate_check(_, _, _)
decay_rate_check(h, ll, acc) ==
  IF ll > NBlocks(h) THEN acc
  ELSE
    LET states == manifold_states(h.ns, ll)
        first == SumSeq(Prefix(h.ns, ll - 1))
        rates == [k \in 1..Cardinality(states) |-> state_decay_rate(h.d_q, first + k)]
    IN IF ~rates_allclose(rates) THEN [acc EXCEPT !.err = "ValueError"]
       ELSE decay_rate_check(h, ll + 1,
              [acc EXCEPT !.decay_rates[ll] = SumSeq(rates) \div Len(rates)])

manifold_of_state(ns, ii) == CHOOSE ll \in 1..Len(ns) : ii \in manifold_states(ns, ll)

\* The three fills of ev_mat['decay'], entry by entry
decay_entry(h, decay_rates, r, c) ==
  LET n == h.n
      ii == row_of_index(r, n)
      jj == col_of_index(r, n)
      kk == row_of_index(c, n)
      ll == col_of_index(c, n)
      mi == manifold_of_state(h.ns, ii)
      mj == manifold_of_state(h.ns, jj)
  IN IF r = c /\ mi # mj
     \* coherences between two manifolds
     THEN CHalf(<<0 - (decay_rates[mi] + decay_rates[mj]), 0>>)
     ELSE IF r = c /\ mi > 1
     \* decay out of a manifold
     THEN <<0 - decay_rates[mi], 0>>
     ELSE IF mi = mj /\ manifold_of_state(h.ns, kk) > mi /\ manifold_of_state(h.ns, ll) > mi
     \* decay into a manifold
     THEN CSumSeq([q \in 1..3 |-> CMul(h.d_q[q][ii][kk], h.d_q[q][ll][jj])])
     ELSE CZero

\* obe.build_decay_ev: the result is [err, decay]
build_decay_ev(h) ==
  LET chk == decay_rate_check(h, 2, [err |-> "ok", decay_rates |-> [ll \in 1..NBlocks(h) |-> 0]])
  IN IF chk.err # "ok" THEN [err |-> chk.err, decay |-> Zeros(h.n * h.n, h.n * h.n)]
     ELSE [err |-> "ok",
           decay |-> [r \in 1..(h.n * h.n) |-> [c \in 1..(h.n * h.n) |->
                        decay_entry(h, chk.decay_rates, r, c)]]]

\* obe.build_coherent_ev
build_coherent_ev(h, keys) ==
  [H0 |-> build_coherent_ev_submatrix(h.H_0, h.n),
   B |-> [q \in 1..3 |-> build_coherent_ev_submatrix(h.mu_q[q], h.n)],
   E |-> {<<key, [q \in 1..3 |-> build_coherent_ev_submatrix(DictGet(h.d_q_bare, key)[q], h.n)]>>
            : key \in keys},
   Estar |-> {<<key, [q \in 1..3 |-> build_coherent_ev_submatrix(DictGet(h.d_q_star, key)[q], h.n)]>>
            : key \in keys}]

NoEvMat ==
  [has |-> {}, decay |-> <<>>, H0 |-> <<>>, B |-> <<>>, E |-> {}, Estar |-> {},
   reE |-> {}, imE |-> {}]

\* obe.build_transform_matrices: U as the source fills it
transform_U(n) ==
  [r \in 1..(n * n) |-> [c \in 1..(n * n) |->
     LET ii == row_of_index(r, n)
         jj == col_of_index(r, n)
     IN IF ii = jj THEN (IF c = r THEN COne ELSE CZero)
        ELSE IF ii < jj
        THEN (IF c = density_index(ii, jj, n) THEN COne
              ELSE IF c = density_index(jj, ii, n) THEN CI ELSE CZero)
        ELSE (IF c = density_index(jj, ii, n) THEN COne
              ELSE IF c = density_index(ii, jj, n) THEN CNeg(CI) ELSE CZero)]]

transform_Uinv_not_halved(n) ==
  [r \in 1..(n * n) |-> [c \in 1..(n * n) |->
     LET ii == row_of_index(r, n)
         jj == col_of_index(r, n)
     IN IF ii = jj THEN (IF c = r THEN <<2, 0>> ELSE CZero)
        ELSE IF ii < jj
        THEN (IF c = density_index(ii, jj, n) THEN <<2, 0>>
              ELSE IF c = density_index(jj, ii, n) THEN <<2, 0>> ELSE CZero)
        ELSE (IF c = density_index(jj, ii, n) THEN <<0, 0 - 2>>
              ELSE IF c = density_index(ii, jj, n) THEN <<0, 2>> ELSE CZero)]]

\* obe.build_transform_matrices: Uinv, whose entries 1., 0.5, -0.5j and
\* +0.5j are held in units of one half (2, 1, -1j, +1j)
transform_Uinv(n) ==
  [r \in 1..(n * n) |-> [c \in 1..(n * n) |->
     LET ii == row_of_index(r, n)
         jj == col_of_index(r, n)
     IN IF ii = jj THEN (IF c = r THEN <<2, 0>> ELSE CZero)
        ELSE IF ii < jj
        THEN (IF c = density_index(ii, jj, n) THEN COne
              ELSE IF c = density_index(jj, ii, n) THEN COne ELSE CZero)
        ELSE (IF c = density_index(jj, ii, n) THEN CNeg(CI)
              ELSE IF c = density_index(ii, jj, n) THEN CI ELSE CZero)]]

\* obe.build_transform_matrices on the object o
build_transform_matrices(o) ==
  [o EXCEPT !.U = transform_U(o.hamiltonian.n), !.Uinv = transform_Uinv(o.hamiltonian.n),
            !.attrs = @ \cup {"U", "Uinv"}]

\* The largest |x| for which np.allclose(x, 0) holds (atol = 1e-8), for an x
\* held in units of one half of 10^e: |x| * 0.5 * 10^e <= 1e-8
allclose_bound(e) == IF e = 0 THEN 0 ELSE 20

imag_allclose_zero_always(M, e) == TRUE

\* np.allclose(np.imag(ev_mat_new), 0)
imag_allclose_zero(M, e) ==
  \A r \in 1..Rows(M) : \A c \in 1..Cols(M) :
     /\ M[r][c][2] <= allclose_bound(e)
     /\ 0 - M[r][c][2] <= allclose_bound(e)

\* obe.transform_ev_matrix: ev_mat holds the entries of the argument in
\* units of 10^e (e is 0 for every matrix the constructor hands over), out
\* the entries of the result in units of one half of 10^e
transform_ev_matrix(o, ev_mat, e) ==
  LetValue(IF "U" \in o.attrs THEN o ELSE build_transform_matrices(o), LAMBDA o1 :
  LetValue(MatMul(MatMul(o1.Uinv, ev_mat), o1.U), LAMBDA ev_mat_new :
    IF imag_allclose_zero(ev_mat_new, e)
    THEN [res |-> "ok", obe |-> o1, out |-> MatReal(ev_mat_new)]
    ELSE [res |-> "ValueError", obe |-> o1, out |-> <<>>]))


\* The three-vector of zeros, the default of r and v
Zero3 == <<0, 0, 0>>

NoObe ==
  [state |-> "none", err |-> "ok", step |-> "", hamiltonian |-> NewHamiltonian,
   laserBeams |-> {}, ev_mat |-> NoEvMat, sol |-> <<>>,
   transform_into_re_im |-> FALSE, include_mag_forces |-> FALSE,
   attrs |-> {}, U |-> <<>>, Uinv |-> <<>>, rho0 |-> <<>>, r0 |-> Zero3, v0 |-> Zero3,
   profile |-> {}]

\* The first of the calls of transform_ev_matrix, in the order of the
\* sequence calls, that raises; 0 when none does
RECURSIVE first_raise(_, _)
first_raise(calls, k) ==
  IF k > Len(calls) THEN 0
  ELSE IF calls[k].res # "ok" THEN k
  ELSE first_raise(calls, k + 1)

\* obe.transform_ev_matrices.  The matrices of the real basis are held in
\* units of one half; the factor 1/np.sqrt(2) of ev_mat_Bx and ev_mat_By is
\* not applied, so B[1] and B[2] are held in units of 1/(2*sqrt(2)).
transform_ev_matrices(o) ==
  LetValue(build_transform_matrices(o), LAMBDA o1 :
    LET ev == o1.ev_mat
        T(M) == transform_ev_matrix(o1, M, 0)
        dec == T(ev.decay)
        H0 == T(ev.H0)
        keys == DictKeys(ev.E)
        reE(key, jj) == T(MatAdd(DictGet(ev.E, key)[jj], DictGet(ev.Estar, key)[jj]))
        imE(key, jj) == T(MatScale(CNeg(CI), MatSub(DictGet(ev.E, key)[jj],
                                                     DictGet(ev.Estar, key)[jj])))
        Bx == T(MatSub(ev.B[1], ev.B[3]))
        By == T(MatScale(CI, MatAdd(ev.B[1], ev.B[3])))
        Bz == T(ev.B[2])
        raised(step) == [res |-> "ValueError", obe |-> o1, step |-> step]
    IN IF dec.res # "ok" THEN raised("decay")
       ELSE IF H0.res # "ok" THEN raised("H0")
       ELSE IF \E key \in keys, jj \in 1..3 : reE(key, jj).res # "ok" \/ imE(key, jj).res # "ok"
       THEN raised("E")
       ELSE IF first_raise(<<Bx, By, Bz>>, 1) # 0 THEN raised("B")
       ELSE [res |-> "ok", step |-> "",
             obe |-> [o1 EXCEPT !.ev_mat =
                        [has |-> {"decay", "H0", "reE", "imE", "B"},
                         decay |-> dec.out, H0 |-> H0.out,
                         reE |-> {<<key, [jj \in 1..3 |-> reE(key, jj).out]>> : key \in keys},
                         imE |-> {<<key, [jj \in 1..3 |-> imE(key, jj).out]>> : key \in keys},
                         B |-> <<Bx.out, By.out, Bz.out>>,
                         E |-> {}, Estar |-> {}]]])

\* obe.set_initial_position and obe.set_initial_velocity
set_initial_position(o, r0) == [o EXCEPT !.r0 = r0, !.sol = <<>>, !.attrs = @ \cup {"r0"}]
set_initial_velocity(o, v0) == [o EXCEPT !.v0 = v0, !.sol = <<>>, !.attrs = @ \cup {"v0"}]
set_initial_position_and_velocity_exchanged(o, r0, v0) ==
  set_initial_velocity(set_initial_position(o, v0), r0)

set_initial_position_and_velocity(o, r0, v0) ==
  set_initial_velocity(set_initial_position(o, r0), v0)

\* obe.__init__(lasers, mag_field, hamiltonian, r, v, transform_into_re_im,
\* include_mag_forces): lasers is the set of the keys of the laser beams.
\* When the constructor raises, no object comes to exist: state is "raised",
\* step the call that raised.  The magField and rateeq objects the
\* constructor also makes are collaborators outside these sources and hold
\* no state of the model; use_sparse_matrices is False (n <= 10), so that
\* convert_to_sparse is not called.
obe_init(hamiltonian, lasers, transform_into_re_im, include_mag_forces) ==
  LET made == make_full_matrices(hamiltonian)
      h == made.h
      failed(step, err) == [NoObe EXCEPT !.state = "raised", !.err = err, !.step = step]
  IN IF made.res # "ok" THEN failed("make_full_matrices", made.res)
     ELSE IF ~(lasers \subseteq DictKeys(h.laser_keys)) THEN failed("laserBeams", "ValueError")
     ELSE
       LET dec == build_decay_ev(h)
           coh == build_coherent_ev(h, lasers)
           o == [NoObe EXCEPT !.state = "built", !.hamiltonian = h, !.laserBeams = lasers,
                              !.transform_into_re_im = transform_into_re_im,
                              !.include_mag_forces = include_mag_forces,
                              !.attrs = {"profile", "sol", "ev_mat"},
                              !.ev_mat = [NoEvMat EXCEPT
                                            !.has = {"decay", "H0", "B", "E", "E*"},
                                            !.decay = dec.decay, !.H0 = coh.H0, !.B = coh.B,
                                            !.E = coh.E, !.Estar = coh.Estar]]
       IN IF dec.err # "ok" THEN failed("build_decay_ev", dec.err)
          ELSE IF ~transform_into_re_im
          THEN set_initial_position_and_velocity(o, Zero3, Zero3)
          ELSE LetValue(transform_ev_matrices(o), LAMBDA tr :
                 IF tr.res # "ok" THEN failed("transform_ev_matrices " \o tr.step, tr.res)
                 ELSE set_initial_position_and_velocity(tr.obe, Zero3, Zero3))

(***************************************************************************)
(* The initial conditions and the trajectory of an obe object.  A density  *)
(* vector is a sequence of n^2 complex entries held in units of 1/RhoUnit, *)
(* so that 1/ns[0] and Npop/np.sum(Npop) are whole numbers of units.  An   *)
(* array argument is [vals, complex, bad]: its entries, whether its dtype  *)
(* is complex128, and "nan" or "inf" when it holds such an entry.          *)
(* self.sol is <<>> for None and <<s>> for a solution s = [t, y], y the    *)
(* samples [rho, v, r] (the rows y[:-6], y[-6:-3] and y[-3:]).             *)
(***************************************************************************)
RECURSIVE Factorial(_)
Factorial(k) == IF k <= 1 THEN 1 ELSE k * Factorial(k - 1)

RhoUnit == Factorial(MaxStates + 1)

RaiseObe(err, o) == [res |-> err, obe |-> o]
ReturnObe(o) == [res |-> "ok", obe |-> o]

\* obe.set_initial_rho
set_initial_rho(o, rho0) ==
  IF rho0.bad # "" THEN RaiseObe("ValueError", o)
  ELSE IF o.transform_into_re_im /\ rho0.complex
  THEN ReturnObe([o EXCEPT !.rho0 = [c \in 1..Len(rho0.vals) |-> CReal(rho0.vals[c])],
                           !.attrs = @ \cup {"rho0"}])
  ELSE ReturnObe([o EXCEPT !.rho0 = rho0.vals, !.attrs = @ \cup {"rho0"}])

\* np.zeros((self.hamiltonian.n**2,)), of either dtype
zero_rho(o) == [c \in 1..(o.hamiltonian.n * o.hamiltonian.n) |-> CZero]

\* obe.set_initial_rho_equally
set_initial_rho_equally(o) ==
  LET n == o.hamiltonian.n
      ns0 == o.hamiltonian.ns[1]
  IN ReturnObe([o EXCEPT !.attrs = @ \cup {"rho0"},
                         !.rho0 = [c \in 1..(n * n) |->
                                     IF \E jj \in 1..ns0 : c = density_index(jj, jj, n)
                                     THEN <<RhoUnit \div ns0, 0>> ELSE CZero]])

\* obe.set_initial_rho_from_populations: Npop.vals are whole numbers whose
\* sum is positive and divides RhoUnit times each of them
set_initial_rho_from_populations(o, Npop) ==
  LET n == o.hamiltonian.n
      total == SumSeq(Npop.vals)
      zeroed == [o EXCEPT !.rho0 = zero_rho(o), !.attrs = @ \cup {"rho0"}]
  IN IF Len(Npop.vals) # n THEN RaiseObe("ValueError", zeroed)
     ELSE IF Npop.bad # "" THEN RaiseObe("ValueError", zeroed)
     ELSE ReturnObe([zeroed EXCEPT !.rho0 = [c \in 1..(n * n) |->
                                 IF row_of_index(c, n) = col_of_index(c, n)
                                 THEN <<(RhoUnit * Npop.vals[row_of_index(c, n)]) \div total, 0>>
                                 ELSE CZero]])

\* obe.set_initial_rho_from_rateeq: Neq is what
\* self.rateeq.equilibrium_populations(self.r0, self.v0, t=0) returned
set_initial_rho_from_rateeq(o, Neq) == set_initial_rho_from_populations(o, Neq)

(***************************************************************************)
(* The derivative of the density vector.  A field component is held in     *)
(* units of 0.5e-10, so that the threshold 1e-10 is Threshold units; the x *)
(* and y components of a Cartesian magnetic field are held in units of     *)
(* sqrt(2) times that.  A derivative is [main, field]: the part without a  *)
(* field, and the part the fields add held in units of 0.5e-10.  In the    *)
(* real basis the operators come in units of one half (1/(2*sqrt(2)) for   *)
(* B[0] and B[1]): there main is held in units of one half and field in    *)
(* units of one quarter; in the complex basis field is held in halves.     *)
(***************************************************************************)
Threshold == 2

MatVec(M, v) == [r \in 1..Rows(M) |-> CSumSeq([c \in 1..Cols(M) |-> CMul(M[r][c], v[c])])]
VecAdd(u, v) == [r \in 1..Len(u) |-> CAdd(u[r], v[r])]
VecSub(u, v) == [r \in 1..Len(u) |-> CSub(u[r], v[r])]
VecScale(z, v) == [r \in 1..Len(v) |-> CMul(z, v[r])]
ZeroVec(m) == [r \in 1..m |-> CZero]

RECURSIVE VecSum(_, _)
VecSum(vs, m) == IF Len(vs) = 0 THEN ZeroVec(m) ELSE VecAdd(vs[1], VecSum(Tail(vs), m))

RECURSIVE MatSum(_, _)
MatSum(Ms, m) == IF Len(Ms) = 0 THEN Zeros(m, m) ELSE MatAdd(Ms[1], MatSum(Tail(Ms), m))

\* A set as a sequence, in some order
RECURSIVE SetToSeq(_)
SetToSeq(S) == IF S = {} THEN <<>> ELSE LET x == CHOOSE y \in S : TRUE
                                        IN <<x>> \o SetToSeq(S \ {x})

above_threshold_or_equal(abs2z) == abs2z >= Threshold * Threshold

\* np.abs(z)>1e-10, from the square of the magnitude of z
above_threshold(abs2z) == abs2z > Threshold * Threshold

\* obe.return_magnetic_field: B is what self.magField.Field returned.  val
\* are the components returned, mag2 the squares of their magnitudes, coef
\* what multiplies the stored operator in the units of field.
return_magnetic_field(o, B) ==
  IF o.transform_into_re_im
  THEN [val |-> <<(<<B[1], 0>>), (<<B[2], 0>>), (<<B[3], 0>>)>>,
        mag2 |-> <<2 * B[1] * B[1], 2 * B[2] * B[2], B[3] * B[3]>>]
  ELSE LET Bq == <<(<<B[1], B[2]>>), (<<B[3], 0>>), (<<0 - B[1], B[2]>>)>>
       IN [val |-> Bq, mag2 |-> [ii \in 1..3 |-> abs2(Bq[ii])]]

\* The terms the loops over the fields add, for a product X (a matrix times
\* rho in drhodt, a matrix in full_OBE_ev) with the sum Sum and the scaling
\* Scale of such products
field_terms(o, Eq, B, X(_), Sum(_), Scale(_, _)) ==
  LET keys == SetToSeq(o.laserBeams)
      Bf == return_magnetic_field(o, B)
      electric(key, ii) ==
        LET E == DictGet(Eq, key)[ii]
        IN IF ~above_threshold(abs2(E)) THEN <<>>
           ELSE IF o.transform_into_re_im
           THEN <<Scale(<<0 - E[1], 0>>, X(DictGet(o.ev_mat.reE, key)[ii])),
                  Scale(<<0 - E[2], 0>>, X(DictGet(o.ev_mat.imE, key)[ii]))>>
           ELSE <<Scale(CNeg(CConj(E)), X(DictGet(o.ev_mat.E, key)[ii])),
                  Scale(CNeg(E), X(DictGet(o.ev_mat.Estar, key)[ii]))>>
      magnetic(ii) ==
        IF ~above_threshold(Bf.mag2[ii]) THEN <<>>
        ELSE <<Scale(CScale(2, Bf.val[ii]), X(o.ev_mat.B[ii]))>>
      ofKey(k) == electric(keys[k], 1) \o electric(keys[k], 2) \o electric(keys[k], 3)
      RECURSIVE allKeys(_)
      allKeys(k) == IF k > Len(keys) THEN <<>> ELSE ofKey(k) \o allKeys(k + 1)
  IN Sum(allKeys(1) \o magnetic(1) \o magnetic(2) \o magnetic(3))

\* obe.drhodt: Eq[key] is what total_electric_field returned for the key, B
\* what the magnetic field model returned
drhodt(o, r, t, rho, Eq, B) ==
  LET m == o.hamiltonian.n * o.hamiltonian.n
  IN IF Len(rho) # m THEN [res |-> "ValueError", obe |-> o, out |-> <<>>]
     ELSE [res |-> "ok", obe |-> o,
           out |-> [main |-> VecAdd(MatVec(o.ev_mat.decay, rho), MatVec(o.ev_mat.H0, rho)),
                    field |-> field_terms(o, Eq, B, LAMBDA M : MatVec(M, rho),
                                          LAMBDA vs : VecSum(vs, m), VecScale)]]

\* obe.full_OBE_ev with ev_mat = self.ev_mat['decay'] and the sum formed in
\* place of that array
full_OBE_ev_in_place(o, r, t, Eq, B) ==
  LET m == o.hamiltonian.n * o.hamiltonian.n
  IN [res |-> "ok", obe |-> [o EXCEPT !.ev_mat.decay = MatAdd(@, o.ev_mat.H0)],
      out |-> [main |-> MatAdd(o.ev_mat.decay, o.ev_mat.H0),
               field |-> field_terms(o, Eq, B, LAMBDA M : M,
                                     LAMBDA Ms : MatSum(Ms, m), MatScale)]]

\* obe.full_OBE_ev
full_OBE_ev(o, r, t, Eq, B) ==
  LET m == o.hamiltonian.n * o.hamiltonian.n
  IN [res |-> "ok", obe |-> o,
      out |-> [main |-> MatAdd(o.ev_mat.decay, o.ev_mat.H0),
               field |-> field_terms(o, Eq, B, LAMBDA M : M,
                                     LAMBDA Ms : MatSum(Ms, m), MatScale)]]

\* obe.full_OBE_ev_scratch: return_full_H is called with (Bq, Eq) for its
\* parameters (Eq, Bq), and np.conjugate of the dictionary raises
full_OBE_ev_scratch(o, r, t, Eq, B) ==
  [res |-> "TypeError", obe |-> o, out |-> <<>>]

(***************************************************************************)
(* Forces.  A gradient of the electric field is a 3 x 3 matrix [x][q] of   *)
(* whole complex numbers; a force is held in units of 1/RhoUnit.  The      *)
(* columns x and y of a gradient of the magnetic field are held in units   *)
(* of sqrt(2).  The source as it stands carries the markers of a merge     *)
(* that was not resolved around the magnetic part of force_from_rho: merge *)
(* names the side the build took, "upstream" (no magnetic part),           *)
(* "stashed_upstream" (delBq written out) or "stashed_stashed" (delBq from *)
(* cart2pol, a name the module does not import).                           *)
(***************************************************************************)
Merges == {"upstream", "stashed_upstream", "stashed_stashed"}

\* The coherence rho_ji of force_from_rho and force_from_sol, ii and jj
\* 1-based
rho_ji(o, rho, ii, jj) ==
  LET n == o.hamiltonian.n
  IN IF o.transform_into_re_im
     THEN CSub(rho[density_index(ii, jj, n)], CMul(CI, rho[density_index(jj, ii, n)]))
     ELSE rho[density_index(jj, ii, n)]

\* The states range(n, n+ns[ind]) of the manifold ind, 1-based
states_of(h, ind) == manifold_states(h.ns, ind)

\* Re(z), a whole number
Re(z) == z[1]

\* What the loop over the laser beams adds to f[x] for one key:
\* 2*np.real(ddotdelE*rho_ji), ddotdelE = 0.5*(np.conjugate(delE[:,::-1]) @
\* d_q_bare[key][:, ii, jj])
laser_force_from_rho(o, key, rho, delE, x) ==
  LET h == o.hamiltonian
      ind == DictGet(h.laser_keys, key)
      d == DictGet(h.d_q_bare, key)
      pairs == SetToSeq(states_of(h, ind[1]) \X states_of(h, ind[2]))
  IN SumSeq([p \in 1..Len(pairs) |->
       LET ii == pairs[p][1]
           jj == pairs[p][2]
           ddotdelE == CSumSeq([q \in 1..3 |-> CMul(CConj(delE[x][4 - q]), d[q][ii][jj])])
       IN Re(CMul(ddotdelE, rho_ji(o, rho, ii, jj)))])

\* delBq, one row of it
delBq_row(row) == <<(<<row[1], row[2]>>), (<<row[3], 0>>), (<<0 - row[1], row[2]>>)>>

\* muBq of a diagonal cell: <<>> for None
muBq_of(cell) ==
  IF Len(cell) = 2 THEN cell[2].matrix
  ELSE IF Len(cell) = 1 /\ cell[1].cls = "vector_block" THEN cell[1].matrix
  ELSE <<>>

\* The pairs <<ii, jj>> the loops over the states of the block ll visit,
\* 0-based: ii in range(n, n+ns[ll]), jj in range(n+ii, n+ns[ll])
magnetic_pairs(h, ll) ==
  LET n == SumSeq(Prefix(h.ns, ll - 1))
  IN {p \in (n..(n + h.ns[ll] - 1)) \X (n..(n + h.ns[ll] - 1)) : p[2] >= n + p[1]}

\* What the pair <<ii, jj>> of the block ll takes from f[x]:
\* 2*np.real((np.conjugate(delBq) @ muBq[:, ii-n, jj-n])*rho_ji)
magnetic_pair_force(o, ll, rho, delB, x, ii, jj) ==
  LET h == o.hamiltonian
      muBq == muBq_of(h.blocks[ll][ll])
      n == SumSeq(Prefix(h.ns, ll - 1))
      dot == CSumSeq([q \in 1..3 |->
               CMul(CConj(delBq_row(delB[x])[q]), muBq[q][ii - n + 1][jj - n + 1])])
  IN 2 * Re(CMul(dot, rho_ji(o, rho, ii + 1, jj + 1)))

\* What the loop over the diagonal blocks subtracts from f[x] for the block
\* ll
magnetic_force_from_rho(o, ll, rho, delB, x) ==
  LET h == o.hamiltonian
      pairs == SetToSeq(magnetic_pairs(h, ll))
  IN IF muBq_of(h.blocks[ll][ll]) = <<>> THEN 0
     ELSE SumSeq([p \in 1..Len(pairs) |->
            magnetic_pair_force(o, ll, rho, delB, x, pairs[p][1], pairs[p][2])])

\* obe.force_from_rho: delE[key] is what total_electric_field_gradient
\* returned for the key, delB what self.magField.gradField returned
force_from_rho(o, r, t, rho, delE, delB, merge) ==
  LET h == o.hamiltonian
      keys == SetToSeq(o.laserBeams)
      laser(x) == SumSeq([k \in 1..Len(keys) |-> laser_force_from_rho(o, keys[k], rho,
                                                               DictGet(delE, keys[k]), x)])
      magnetic(x) == SumSeq([ll \in 1..NBlocks(h) |-> magnetic_force_from_rho(o, ll, rho, delB, x)])
  IN IF ~o.include_mag_forces \/ merge = "upstream"
     THEN [res |-> "ok", obe |-> o, out |-> [x \in 1..3 |-> laser(x)]]
     ELSE IF merge = "stashed_stashed"
     THEN [res |-> "NameError", obe |-> o, out |-> <<>>]
     ELSE [res |-> "ok", obe |-> o, out |-> [x \in 1..3 |-> laser(x) - magnetic(x)]]

\* rho_ji_d[q] of force_from_sol at the sample of density vector rho
rho_ji_d(o, key, rho, q) ==
  LET h == o.hamiltonian
      ind == DictGet(h.laser_keys, key)
      d == DictGet(h.d_q_bare, key)
      pairs == SetToSeq(states_of(h, ind[1]) \X states_of(h, ind[2]))
  IN CSumSeq([p \in 1..Len(pairs) |->
       CMul(d[q][pairs[p][1]][pairs[p][2]], rho_ji(o, rho, pairs[p][1], pairs[p][2]))])

\* f_laser_q[key][x, q, ll, k] of force_from_sol:
\* 2*np.real(0.5*rho_ji_d*np.conjugate(delE_laser))
f_laser_q_entry(o, key, delE_laser, x, q, k) ==
  Re(CMul(rho_ji_d(o, key, o.sol[1].y[k].rho, q), CConj(delE_laser[k][x][q])))

\* obe.force_from_sol(return_q=True): delE[key] is what
\* electric_field_gradient returned for the key, one entry for each beam and
\* in it one gradient for each sample.  out is [f, f_laser, f_laser_q] with
\* f[x][k], f_laser[key][x][ll][k] and f_laser_q[key][x][q][ll][k].
force_from_sol(o, delE) ==
  IF o.sol = <<>> THEN [res |-> "AttributeError", obe |-> o, out |-> <<>>]
  ELSE
    LET K == Len(o.sol[1].t)
        keys == SetToSeq(o.laserBeams)
        beams(key) == DictGet(delE, key)
    IN LetValue({<<key, [x \in 1..3 |-> [q \in 1..3 |-> [ll \in 1..Len(beams(key)) |->
                    [k \in 1..K |-> f_laser_q_entry(o, key, beams(key)[ll], x, q, k)]]]]>> :
                   key \in o.laserBeams}, LAMBDA f_laser_q :
       LetValue({<<key, [x \in 1..3 |-> [ll \in 1..Len(beams(key)) |-> [k \in 1..K |->
                    SumSeq([q \in 1..3 |-> DictGet(f_laser_q, key)[x][q][ll][k]])]]]>> :
                   key \in o.laserBeams}, LAMBDA f_laser :
         [res |-> "ok", obe |-> o,
          out |-> [f |-> [x \in 1..3 |-> [k \in 1..K |->
                            SumSeq([i \in 1..Len(keys) |->
                              SumSeq([ll \in 1..Len(beams(keys[i])) |->
                                        DictGet(f_laser, keys[i])[x][ll][k]])])]],
                   f_laser |-> f_laser,
                   f_laser_q |-> f_laser_q]]))

\* obe.evolve_density: solution is what solve_ivp returned; the integrator
\* evaluates dydt, and with it drhodt, on the initial vector
evolve_density(o, t_span, solution) ==
  IF "rho0" \notin o.attrs THEN RaiseObe("AttributeError", o)
  ELSE IF Len(o.rho0) # o.hamiltonian.n * o.hamiltonian.n THEN RaiseObe("ValueError", o)
  ELSE ReturnObe([o EXCEPT !.sol = <<solution>>])

\* The arguments evolve_density hands to solve_ivp: the span, and the
\* concatenation of rho0, v0 and r0
solve_ivp_arguments(o, t_span) ==
  [t_span |-> t_span, y0 |-> [rho |-> o.rho0, v |-> o.v0, r |-> o.r0]]

\* obe.evolve_motion: as evolve_density, and dydt calls force_from_rho
evolve_motion(o, t_span, solution, merge) ==
  IF "rho0" \notin o.attrs THEN RaiseObe("AttributeError", o)
  ELSE IF Len(o.rho0) # o.hamiltonian.n * o.hamiltonian.n THEN RaiseObe("ValueError", o)
  ELSE IF o.include_mag_forces /\ merge = "stashed_stashed" THEN RaiseObe("NameError", o)
  ELSE ReturnObe([o EXCEPT !.sol = <<solution>>])

(***************************************************************************)
(* find_equilibrium_force.  windows[w] is what solve_ivp returns on the    *)
(* w-th call of evolve_density and grads[w] what electric_field_gradient   *)
(* returns on that solution; every window has the same number of samples   *)
(* (t_eval has Npts points); its field bad is "nan" when the integration   *)
(* ran into NaNs.  A threshold is a ratio [num, den].  f_avg is held as    *)
(* the sum over the samples: the mean is that sum over the number of       *)
(* samples.                                                                *)
(***************************************************************************)
\* D/scale < num/den for whole numbers D >= 0, scale > 0
below_ratio(D, scale, thr) ==
  /\ thr.num * scale >= 1
  /\ D <= (thr.num * scale - 1) \div thr.den

SumSquares(v) == SumSeq([x \in 1..Len(v) |-> v[x] * v[x]])

\* The test of the loop with a previous average that starts as zero
converged_from_zero(old, f_sum, K, rel, abs) ==
  LET before == IF old = <<>> THEN <<0, 0, 0>> ELSE old
      D == SumSquares([x \in 1..3 |-> before[x] - f_sum[x]])
      F == SumSquares(f_sum)
  IN \/ (F > 0 /\ below_ratio(D, F, rel))
     \/ below_ratio(D, K * K * RhoUnit * RhoUnit, abs)

\* np.sum((old_f_avg-f_avg)**2)/np.sum((f_avg)**2)<rel or
\* np.sum((old_f_avg-f_avg)**2)<abs; old is <<>> for the vector of np.inf
converged(old, f_sum, K, rel, abs) ==
  IF old = <<>> THEN FALSE
  ELSE LET D == SumSquares([x \in 1..3 |-> old[x] - f_sum[x]])
           F == SumSquares(f_sum)
       IN \/ (F > 0 /\ below_ratio(D, F, rel))
          \/ below_ratio(D, K * K * RhoUnit * RhoUnit, abs)

\* The value of ii after a window: break leaves it, else ii+=1
iterations_counted_before_test(ii, met) == ii + 1

iterations_counted(ii, met) == IF met THEN ii ELSE ii + 1

\* The span of the window of the iteration ii
window_span(ii, deltat) == <<ii * deltat, (ii + 1) * deltat>>

\* The while loop of find_equilibrium_force from the iteration ii on; seen
\* is the sums of the forces of the windows integrated so far, calls the
\* arguments of the integrations so far
RECURSIVE equilibrium_loop(_, _, _, _, _, _, _, _)
equilibrium_loop(o, ii, old, seen, calls, kwargs, windows, grads) ==
  IF ii >= kwargs.itermax
  THEN [res |-> IF seen = <<>> THEN "UnboundLocalError" ELSE "ok", obe |-> o,
        out |-> [f_avg |-> old, iterations |-> ii, windows |-> seen, calls |-> calls]]
  ELSE
    LetValue(evolve_density(o, window_span(ii, kwargs.deltat), windows[ii + 1]), LAMBDA ev :
      IF ev.res # "ok" THEN [res |-> ev.res, obe |-> ev.obe, out |-> <<>>]
      ELSE
        LetValue(force_from_sol(ev.obe, grads[ii + 1]), LAMBDA fs :
        LetValue([x \in 1..3 |-> SumSeq(fs.out.f[x])], LAMBDA f_sum :
          LET sol == ev.obe.sol[1]
              final == sol.y[Len(sol.y)]
              \* every comparison with a NaN is False
              met == sol.bad = "" /\ converged(old, f_sum, Len(sol.t), kwargs.rel, kwargs.abs)
          IN IF met
             THEN [res |-> "ok", obe |-> ev.obe,
                   out |-> [f_avg |-> f_sum, iterations |-> iterations_counted(ii, met),
                            windows |-> Append(seen, f_sum),
                            calls |-> Append(calls, solve_ivp_arguments(
                                                      o, window_span(ii, kwargs.deltat)))]]
             ELSE
               LetValue(set_initial_rho(ev.obe, [vals |-> final.rho,
                                                 complex |-> ~o.transform_into_re_im,
                                                 bad |-> sol.bad]), LAMBDA seeded :
                 IF seeded.res # "ok"
                 THEN [res |-> seeded.res, obe |-> seeded.obe, out |-> <<>>]
                 ELSE equilibrium_loop(set_initial_position_and_velocity(seeded.obe, final.r, final.v),
                                  iterations_counted(ii, met), f_sum, Append(seen, f_sum),
                                  Append(calls, solve_ivp_arguments(
                                                  o, window_span(ii, kwargs.deltat))),
                                  kwargs, windows, grads)))))

\* obe.find_equilibrium_force(itermax=, rel=, abs=)
find_equilibrium_force(o, kwargs, windows, grads) ==
  equilibrium_loop(o, 0, <<>>, <<>>, <<>>, kwargs, windows, grads)

(***************************************************************************)
(* reshape_sol.  What it returns is held as the sequence, over the samples *)
(* of the stored solution, of the n x n matrices rho[:, :, k].             *)
(***************************************************************************)
\* y.reshape(n, n) of one sample, in the row-major order of numpy: the
\* entry [a, b] is the entry a*n + b of the vector
np_reshape(y, n) == [a \in 1..n |-> [b \in 1..n |-> y[(a - 1) * n + (b - 1) + 1]]]

\* np.triu(M, k=1) and np.tril(M, k=-1)
np_triu(M) == [a \in 1..Rows(M) |-> [b \in 1..Cols(M) |-> IF a < b THEN M[a][b] ELSE CZero]]
np_tril(M) == [a \in 1..Rows(M) |-> [b \in 1..Cols(M) |-> IF a > b THEN M[a][b] ELSE CZero]]

\* The matrix new_rho[:, :, jj] of the real basis
new_rho(M) ==
  MatAdd(MatSub(MatAdd(MatAdd(Diag(Diagonal(M)), np_triu(M)), Transpose(np_triu(M))),
                MatScale(CI, np_tril(M))),
         MatScale(CI, Transpose(np_tril(M))))

\* obe.reshape_sol
reshape_sol(o) ==
  IF o.sol = <<>> THEN [res |-> "AttributeError", obe |-> o, out |-> <<>>]
  ELSE LET n == o.hamiltonian.n
           y == o.sol[1].y
       IN [res |-> "ok", obe |-> o,
           out |-> [k \in 1..Len(y) |->
                      IF o.transform_into_re_im THEN new_rho(np_reshape(y[k].rho, n))
                      ELSE np_reshape(y[k].rho, n)]]

(***************************************************************************)
(* Force profiles.  R and V are grids of one dimension: R[x][c] is the     *)
(* x-th coordinate of the cell c.  A profile is [R, V, F, iterations] with *)
(* F[x][c] held as find_equilibrium_force returns it; self.profile is a    *)
(* dictionary from names to profiles.                                      *)
(***************************************************************************)
\* force_profile.__init__
force_profile(R, V) ==
  IF Len(R) # 3 \/ Len(V) # 3 THEN [res |-> "TypeError", out |-> <<>>]
  ELSE [res |-> "ok",
        out |-> [R |-> R, V |-> V,
                 F |-> [x \in 1..3 |-> [c \in 1..Len(R[1]) |-> 0]],
                 iterations |-> [c \in 1..Len(R[1]) |-> 0]]]

\* force_profile.store_data
store_data(profile, ind, F, iterations) ==
  [profile EXCEPT !.iterations[ind] = iterations,
                  !.F = [x \in 1..3 |-> [@[x] EXCEPT ![ind] = F[x]]]]

\* '{0:d}'.format(len(self.profile))
default_name(profile) == ToString(Cardinality(profile))

\* The loop of generate_force_profile over the cells from the cell c on.
\* oracle[c] is what the collaborators return at the cell c: Neq, windows
\* and grads.
RECURSIVE profile_cells(_, _, _, _, _, _)
profile_cells(o, name, c, initial_rho, kwargs, oracle) ==
  LET this == DictGet(o.profile, name)
  IN IF c > Len(this.R[1]) THEN ReturnObe(o)
     ELSE
       LET placed == set_initial_position_and_velocity(o,
                        [x \in 1..3 |-> this.R[x][c]], [x \in 1..3 |-> this.V[x][c]])
           seeded == IF initial_rho = "rateeq"
                     THEN set_initial_rho_from_rateeq(placed, oracle[c].Neq)
                     ELSE IF initial_rho = "equally" THEN set_initial_rho_equally(placed)
                     ELSE RaiseObe("ValueError", placed)
       IN IF seeded.res # "ok" THEN seeded
          ELSE
            LetValue(find_equilibrium_force(seeded.obe, kwargs, oracle[c].windows,
                                            oracle[c].grads), LAMBDA found :
              IF found.res # "ok" THEN RaiseObe(found.res, found.obe)
              ELSE profile_cells(
                     [found.obe EXCEPT !.profile =
                        DictSet(@, name, store_data(this, c, found.out.f_avg,
                                                    found.out.iterations))],
                     name, c + 1, initial_rho, kwargs, oracle))

\* obe.generate_force_profile(R, V, name=, initial_rho=, **kwargs); the name
\* "" stands for both None and the empty string
generate_force_profile(o, R, V, name, initial_rho, kwargs, oracle) ==
  LET named == IF name = "" THEN default_name(o.profile) ELSE name
      made == force_profile(R, V)
  IN IF made.res # "ok" THEN RaiseObe(made.res, o)
     ELSE profile_cells([o EXCEPT !.profile = DictSet(@, named, made.out)],
                        named, 1, initial_rho, kwargs, oracle)

(***************************************************************************)
(* The inputs of the model.                                                *)
(***************************************************************************)
\* A diagonal energy block with descending energies
HDesc(n) == Diag([i \in 1..n |-> <<n - i, 0>>])
\* An energy block that is not diagonal (n >= 2)
HOff(n) == [i \in 1..n |-> [j \in 1..n |-> IF i + j = n + 1 THEN COne ELSE CZero]]
\* A matrix that is not square
HRect(n) == Zeros(n, n + 1)

H_0_inputs ==
  {HDesc(n) : n \in Dims} \cup {HOff(n) : n \in Dims \ {1}} \cup {HRect(1)}

MuDiag(n) == <<MatScale(CI, Eye(n)), Diag([i \in 1..n |-> <<i, 0>>]), Eye(n)>>
MuOff(n) == <<Zeros(n, n), HOff(n), Zeros(n, n)>>

mu_q_inputs ==
  {MuDiag(n) : n \in Dims} \cup {MuOff(n) : n \in Dims \ {1}}
    \cup {<<Zeros(1, 1), Zeros(1, 1)>>}

muB_input == 2

Dq(n, m) == [q \in 1..3 |-> [r \in 1..n |-> [c \in 1..m |-> <<q + r - 2, c>>]]]

d_q_inputs == {Dq(n, m) : n \in Dims, m \in Dims}

EVec == <<(<<2, 0>>), (<<0, 2>>), (<<2, 2>>)>>
Bq_inputs == {<<(<<1, 1>>), (<<2, 0>>), (<<0, 1>>)>>}

Eq_inputs(h) ==
  {EqList(EVec)}
    \cup {EqDict({<<key, EVec>>}) : key \in DictKeys(h.laser_keys) \cup {<<"g", "e">>}}

\* Magnetic moments that are zero
MuNone(n) == <<Zeros(n, n), Zeros(n, n), Zeros(n, n)>>

\* The arguments of the constructor: none, or the five matrices of a g
\* and an e manifold
init_args ==
  {<<>>} \cup {<<HDesc(n), HDesc(m), MuDiag(n), MuDiag(m), Dq(n, m)>> : n \in Dims, m \in Dims}
    \cup {<<HDesc(MaxDim), HDesc(1), MuNone(MaxDim), MuNone(1), Dq(MaxDim, 1)>>}

field_inputs ==
  {[isnum |-> TRUE, val |-> B] : B \in {0 - 1, 0, 1}} \cup {[isnum |-> FALSE, val |-> 0]}

(***************************************************************************)
(* The state machine of one hamiltonian object and its callers.            *)
(* last records the last call and ret the value it returned.  A call that  *)
(* changed neither object is not followed up: the calls after it start     *)
(* from objects that are also reached without it.                          *)
(***************************************************************************)
NoCall ==
  [op |-> "init", res |-> "ok", label1 |-> "", label2 |-> "", M |-> <<>>,
   Eq |-> EqDict({}), Bq |-> <<>>, field |-> [isnum |-> TRUE, val |-> 0], run |-> 0, calls |-> 0,
   changed |-> TRUE]

NoJob == [kind |-> "none", H |-> <<>>, out |-> <<>>, res |-> "ok", args |-> <<>>]

Init ==
  /\ \E args \in init_args :
       \E r \in {hamiltonian_init(args, muB_input, 1, 1)} :
         /\ r.res = "ok"
         /\ ham = r.h
  /\ rot = NewHamiltonian
  /\ last = NoCall
  /\ ret = <<>>
  /\ obe = NoObe
  /\ job = NoJob

\* A further call is followed
CanCall == last.calls < MaxCalls /\ last.changed

Called(r, newrot, call) ==
  /\ NBlocks(r.h) <= MaxManifolds
  /\ ham' = r.h
  /\ rot' = newrot
  /\ last' = [call EXCEPT !.res = r.res, !.calls = last.calls + 1,
                          !.changed = (r.h # ham \/ newrot # rot)]
  /\ UNCHANGED <<obe, job>>

Add_H_0_block ==
  /\ CanCall
  /\ \E state_label \in Labels, H_0 \in H_0_inputs :
     \E r \in {add_H_0_block(ham, state_label, H_0)} :
       /\ Called(r, rot,
                 [NoCall EXCEPT !.op = "add_H_0_block", !.label1 = state_label, !.M = <<H_0>>])
       /\ ret' = <<>>

Add_mu_q_block ==
  /\ CanCall
  /\ \E state_label \in Labels, mu_q \in mu_q_inputs :
     \E r \in {add_mu_q_block(ham, state_label, mu_q, muB_input)} :
       /\ Called(r, rot,
                 [NoCall EXCEPT !.op = "add_mu_q_block", !.label1 = state_label, !.M = mu_q])
       /\ ret' = <<>>

Add_d_q_block ==
  /\ CanCall
  /\ \E label1 \in Labels, label2 \in Labels, d_q \in d_q_inputs :
     \E r \in {add_d_q_block(ham, label1, label2, d_q, 1, 1)} :
       /\ Called(r, rot,
                 [NoCall EXCEPT !.op = "add_d_q_block", !.label1 = label1,
                                !.label2 = label2, !.M = d_q])
       /\ ret' = <<>>

Make_full_matrices ==
  /\ CanCall
  /\ \E r \in {make_full_matrices(ham)} :
       /\ Called(r, rot,
                 [NoCall EXCEPT !.op = "make_full_matrices",
                                !.run = IF last.op = "make_full_matrices" /\ last.res = "ok"
                                        THEN 2 ELSE 1])
       /\ ret' = <<>>

Return_full_H ==
  /\ CanCall
  /\ \E Eq \in Eq_inputs(ham), Bq \in Bq_inputs :
     \E r \in {return_full_H(ham, Eq, Bq)} :
       /\ Called(r, rot, [NoCall EXCEPT !.op = "return_full_H", !.Eq = Eq, !.Bq = Bq])
       /\ ret' = r.H

Diag_static_field ==
  /\ CanCall
  /\ \E field \in field_inputs :
       /\ field.isnum => EigExact(ham, field.val)
       /\ \E r \in {diag_static_field(ham, rot, field)} :
            /\ Called(r, r.rot, [NoCall EXCEPT !.op = "diag_static_field", !.field = field])
            /\ ret' = <<>>

Next ==
  \/ Add_H_0_block
  \/ Add_mu_q_block
  \/ Add_d_q_block
  \/ Make_full_matrices
  \/ Return_full_H
  \/ Diag_static_field

Spec == Init /\ [][Next]_vars

(***************************************************************************)
(* The state machine of one obe object: it is constructed from a           *)
(* hamiltonian that the add_* calls built, and its                         *)
(* build_coherent_ev_submatrix is then applied to square matrices.         *)
(***************************************************************************)
\* Dipole blocks of shape (3, n, m) whose entries all have an even abs2:
\* kind 1 and 3 give every column the same sum of abs2, kind 2 gives the
\* first column a smaller one than the others
ObeDq(n, m, kind) ==
  [q \in 1..3 |-> [r \in 1..n |-> [c \in 1..m |->
     IF kind = 1 THEN (IF q = 1 THEN <<1, 1>> ELSE IF q = 2 THEN CZero ELSE <<1, 0 - 1>>)
     ELSE IF kind = 2 THEN (IF q # 1 THEN CZero ELSE IF c = 1 THEN <<1, 1>> ELSE <<2, 0>>)
     ELSE (IF (q + r + c) % 2 = 0 THEN <<1, 1>> ELSE <<1, 0 - 1>>)]]]

TwoManifolds(l1, n1, l2, n2, withMu, kind) ==
  LET h1 == add_H_0_block(NewHamiltonian, l1, HDesc(n1)).h
      h2 == IF withMu THEN add_mu_q_block(h1, l1, MuDiag(n1), muB_input).h ELSE h1
      h3 == add_H_0_block(h2, l2, HDesc(n2)).h
  IN IF kind = 0 THEN h3
     ELSE add_d_q_block(h3, "g", "e", ObeDq(IF l1 = "g" THEN n1 ELSE n2,
                                            IF l1 = "g" THEN n2 ELSE n1, kind), 1, 1).h

ObeHamiltonians ==
  {NewHamiltonian}
    \cup {add_H_0_block(NewHamiltonian, "g", HDesc(n)).h : n \in 1..MaxStates}
    \cup {TwoManifolds(l[1], d[1], l[2], d[2], withMu, kind) :
            l \in {<<"g", "e">>, <<"e", "g">>},
            d \in {x \in (1..MaxStates) \X (1..MaxStates) : x[1] + x[2] <= MaxStates},
            withMu \in BOOLEAN, kind \in 0..3}

\* Square matrices handed to build_coherent_ev_submatrix
CohInputs(n) ==
  {[r \in 1..n |-> [c \in 1..n |-> IF r = a /\ c = b THEN v ELSE CZero]] :
      a \in 1..n, b \in 1..n, v \in {COne, CI}}
    \cup {[r \in 1..n |-> [c \in 1..n |-> <<r, c - r>>]]}

InitObe ==
  /\ ham \in ObeHamiltonians
  /\ rot = NewHamiltonian
  /\ last = NoCall
  /\ ret = <<>>
  /\ obe = NoObe
  /\ job = NoJob

Construct ==
  /\ obe.state = "none"
  /\ \E lasers \in SUBSET (DictKeys(ham.laser_keys) \cup {<<"g", "e">>}) :
       \E re_im \in BOOLEAN : obe' = obe_init(ham, lasers, re_im, FALSE)
  /\ UNCHANGED <<ham, rot, last, ret, job>>

\* The method changes no state of the object, so one call per object is
\* followed
Build_coherent_ev_submatrix ==
  /\ obe.state = "built"
  /\ job = NoJob
  /\ \E H \in CohInputs(obe.hamiltonian.n) :
       job' = [NoJob EXCEPT !.kind = "build_coherent_ev_submatrix", !.H = H,
                            !.out = build_coherent_ev_submatrix(H, obe.hamiltonian.n)]
  /\ UNCHANGED <<ham, rot, last, ret, obe>>

\* A hermitian matrix with no zero entry
Herm(n) == [r \in 1..n |-> [c \in 1..n |-> <<r + c, c - r>>]]

\* A matrix whose one entry that is not zero, the first of the diagonal, is
\* k times the imaginary unit
ImagEntry(m, k) == [r \in 1..m |-> [c \in 1..m |-> IF r = 1 /\ c = 1 THEN <<0, k>> ELSE CZero]]

\* The arguments of transform_ev_matrix: <<origin, H, ev_mat, e>>, with
\* ev_mat the operator of the matrix H, the decay generator of the object,
\* or a matrix of entries k * 1e-9j
TransformInputs(o) ==
  LET n == o.hamiltonian.n
  IN {<<"commutator", H, build_coherent_ev_submatrix(H, n), 0>> :
         H \in {Herm(n), HDesc(n)} \cup CohInputs(n)}
       \cup {<<"decay", <<>>, o.ev_mat.decay, 0>> : x \in {y \in {1} : ~o.transform_into_re_im}}
       \cup {<<"matrix", <<>>, ImagEntry(n * n, k), 0 - 9>> : k \in {1, 10, 30}}

\* One call of transform_ev_matrix per object is followed; the call builds
\* U and Uinv on an object that has none
Transform_ev_matrix ==
  /\ obe.state = "built"
  /\ job = NoJob
  /\ \E inp \in TransformInputs(obe) :
       \E r \in {transform_ev_matrix(obe, inp[3], inp[4])} :
         /\ obe' = r.obe
         /\ job' = [NoJob EXCEPT !.kind = "transform_ev_matrix", !.H = inp[3],
                                 !.out = r.out, !.res = r.res,
                                 !.args = <<inp[1], inp[2], inp[4]>>]
  /\ UNCHANGED <<ham, rot, last, ret>>

NextObe ==
  \/ Construct
  \/ Build_coherent_ev_submatrix
  \/ Transform_ev_matrix

SpecObe == InitObe /\ [][NextObe]_vars

(***************************************************************************)
(* The state machine of one constructed obe object and its callers: the    *)
(* object has a ground and an excited manifold with a dipole coupling and  *)
(* magnetic moments, in either basis, with or without magnetic forces.     *)
(* job records the last call, its arguments and what it returned; last     *)
(* counts the calls.  What the collaborators return (the fields and their  *)
(* gradients, the rate-equation populations, the solutions of solve_ivp)   *)
(* is an input of the call.                                                *)
(***************************************************************************)
\* Magnetic moments of a manifold whose states are not coupled by the field
MuZ(n, k) == <<Zeros(n, n), Diag([i \in 1..n |-> <<i + k, 0>>]), Zeros(n, n)>>

RunHamiltonian(n1, n2) ==
  LET h1 == add_H_0_block(NewHamiltonian, "g", HDesc(n1)).h
      h2 == add_mu_q_block(h1, "g", MuZ(n1, 0), muB_input).h
      h3 == add_H_0_block(h2, "e", Diag([i \in 1..n2 |-> <<i, 0>>])).h
      h4 == add_mu_q_block(h3, "e", MuZ(n2, 1), muB_input).h
  IN add_d_q_block(h4, "g", "e", ObeDq(n1, n2, 1), 1, 1).h

RunHamiltonians == {RunHamiltonian(1, 1)}

RunObjects ==
  {o \in {obe_init(h, {<<"g", "e">>}, re_im, mag) :
            h \in RunHamiltonians, re_im \in BOOLEAN, mag \in BOOLEAN} : o.state = "built"}

RunPositions == {Zero3, <<1, 0, 0>>}

\* A density vector of the basis of the object: equal populations, and
\* coherences that grow with a
RunRho(o, a) ==
  LET n == o.hamiltonian.n
  IN [c \in 1..(n * n) |->
        IF row_of_index(c, n) = col_of_index(c, n) THEN <<RhoUnit \div n, 0>>
        ELSE IF o.transform_into_re_im THEN <<a * c, 0>> ELSE <<a * c, a>>]

\* Arrays handed to set_initial_rho
RhoInputs(o) ==
  {[vals |-> RunRho(o, 1), complex |-> c, bad |-> ""] : c \in BOOLEAN}
    \cup {[vals |-> [c \in 1..Len(RunRho(o, 0)) |-> CReal(RunRho(o, 0)[c])],
           complex |-> FALSE, bad |-> b] : b \in {"", "nan", "inf"}}
    \cup {[vals |-> <<COne>>, complex |-> TRUE, bad |-> ""]}

\* Populations handed to set_initial_rho_from_populations
NpopInputs(o) ==
  LET n == o.hamiltonian.n
  IN {[vals |-> [i \in 1..n |-> 1], bad |-> b] : b \in {"", "nan", "inf"}}
       \cup {[vals |-> [i \in 1..n |-> IF i = 1 THEN 1 ELSE 0], bad |-> ""],
             [vals |-> [i \in 1..(n + 1) |-> 1], bad |-> ""]}

\* Populations the rate equations return
NeqInputs(o) ==
  {[vals |-> [i \in 1..o.hamiltonian.n |-> IF i = 1 THEN 1 ELSE 0], bad |-> b] : b \in {"", "nan"}}

\* A solution of two samples whose density vectors are RunRho of a1 and a2
RunSolution(o, t0, a1, a2, bad) ==
  [t |-> <<t0, t0 + 1>>,
   y |-> <<[rho |-> RunRho(o, a1), v |-> o.v0, r |-> o.r0],
           [rho |-> RunRho(o, a2), v |-> o.v0, r |-> <<o.r0[1] + o.v0[1], o.r0[2], o.r0[3]>>]>>,
   bad |-> bad]

Solutions(o, t0) ==
  {RunSolution(o, t0, a[1], a[2], "") : a \in {<<1, 1>>, <<1, 2>>, <<2, 2>>}}
    \cup {RunSolution(o, t0, 1, 1, "nan")}

\* Electric fields: none, every component at the threshold or below it, and
\* components above it
RunEq(o) ==
  {{<<key, E>> : key \in o.laserBeams} :
     E \in {<<CZero, CZero, CZero>>, <<(<<2, 0>>), (<<0, 2>>), (<<1, 1>>)>>,
            <<(<<2, 1>>), CZero, CZero>>, <<(<<3, 0>>), (<<0, 2>>), (<<0, 3>>)>>}}

\* An electric field with every component above the threshold
AboveEq(o) == {<<key, <<(<<3, 0>>), (<<0, 3>>), (<<2, 2>>)>>>> : key \in o.laserBeams}

\* Magnetic fields, Cartesian
RunB == {Zero3, <<1, 1, 2>>, <<0, 2, 2>>, <<2, 0, 3>>}

\* A gradient of the electric field, [x][q]
RunGradient(a) == [x \in 1..3 |-> [q \in 1..3 |-> <<a * q + x, q - 1>>]]

RunDelE(o) == {{<<key, RunGradient(a)>> : key \in o.laserBeams} : a \in {0, 1}}

RunDelB == {[x \in 1..3 |-> Zero3], [x \in 1..3 |-> <<x, 1, 2>>]}

\* What electric_field_gradient returns on a solution of K samples: for
\* each key, for each of two beams, one gradient for each sample
RunBeamGradients(o, K, a) ==
  {<<key, <<[k \in 1..K |-> RunGradient(a)], [k \in 1..K |-> RunGradient(0)]>>>> :
     key \in o.laserBeams}

\* The thresholds of find_equilibrium_force: the defaults 1e-5 and 1e-9,
\* a relative threshold of one half, and thresholds that never hold
DefaultThresholds == <<[num |-> 1, den |-> 100000], [num |-> 1, den |-> 1000000000]>>
HalfThresholds == <<[num |-> 1, den |-> 2], [num |-> 0, den |-> 1]>>
NeverThresholds == <<[num |-> 0, den |-> 1], [num |-> 0, den |-> 1]>>

\* The arguments of find_equilibrium_force: its keywords, and for each of
\* its windows the solution and the gradients.  The window w has the
\* density vectors RunRho of as[w] and as[w] + 1.
EquilibriumInput(o, as, thr, bad) ==
  [kwargs |-> [deltat |-> 2, itermax |-> Len(as), rel |-> thr[1], abs |-> thr[2]],
   windows |-> [w \in 1..Len(as) |-> RunSolution(o, w - 1, as[w], as[w] + 1, bad)],
   grads |-> [w \in 1..Len(as) |-> RunBeamGradients(o, 2, 1)]]

\* Windows without coherences, on which the force is zero
StillInput(o, itermax) ==
  [kwargs |-> [deltat |-> 2, itermax |-> itermax, rel |-> DefaultThresholds[1],
               abs |-> DefaultThresholds[2]],
   windows |-> [w \in 1..itermax |-> RunSolution(o, w - 1, 0, 0, "")],
   grads |-> [w \in 1..itermax |-> RunBeamGradients(o, 2, 1)]]

EquilibriumInputs(o) ==
  {EquilibriumInput(o, as, DefaultThresholds, "") : as \in {<<>>, <<1>>, <<1, 1>>, <<1, 2>>}}
    \cup {StillInput(o, 1), StillInput(o, 2)}
    \cup {EquilibriumInput(o, as, NeverThresholds, "") : as \in {<<1>>, <<1, 1>>}}
    \cup {EquilibriumInput(o, <<1, 2>>, HalfThresholds, ""),
          EquilibriumInput(o, <<1, 1>>, DefaultThresholds, "nan")}

\* A grid of one cell, and a grid whose first dimension is not 3
RunGrid == <<(<<1>>), (<<0>>), (<<0>>)>>
BadGrid == <<(<<0>>), (<<0>>)>>

RunNames == {"", "0", "1", "a"}

\* The arguments of generate_force_profile: <<R, V, name, initial_rho, inp,
\* Neq>>, inp the arguments its find_equilibrium_force works on
ProfileInputs(o) ==
  LET V == <<(<<0>>), (<<0>>), (<<0>>)>>
      once == EquilibriumInput(o, <<1>>, DefaultThresholds, "")
      settled == EquilibriumInput(o, <<2, 2>>, DefaultThresholds, "")
      Neq == CHOOSE x \in NeqInputs(o) : x.bad = ""
  IN {<<RunGrid, V, name, "equally", inp, Neq>> : name \in RunNames, inp \in {once, settled}}
       \cup {<<RunGrid, V, "a", "rateeq", once, x>> : x \in NeqInputs(o)}
       \cup {<<RunGrid, V, "a", "other", once, Neq>>, <<BadGrid, V, "a", "equally", once, Neq>>,
             <<RunGrid, V, "a", "equally", EquilibriumInput(o, <<1>>, DefaultThresholds, "nan"),
               Neq>>}

InitRun ==
  /\ obe \in RunObjects
  /\ ham = obe.hamiltonian
  /\ rot = NewHamiltonian
  /\ last = NoCall
  /\ ret = <<>>
  /\ job = NoJob

\* A further call is followed
CanRun == obe.state = "built" /\ last.calls < MaxObeCalls /\ last.changed

Ran(kind, args, r, out) ==
  /\ obe' = r.obe
  /\ job' = [NoJob EXCEPT !.kind = kind, !.args = args, !.out = out, !.res = r.res]
  /\ last' = [NoCall EXCEPT !.op = kind, !.res = r.res, !.calls = last.calls + 1,
                            !.changed = (r.obe # obe)]
  /\ UNCHANGED <<ham, rot, ret>>

Set_initial_position ==
  /\ CanRun
  /\ \E r0 \in RunPositions :
       Ran("set_initial_position", <<r0>>, ReturnObe(set_initial_position(obe, r0)), <<>>)

Set_initial_velocity ==
  /\ CanRun
  /\ \E v0 \in RunPositions :
       Ran("set_initial_velocity", <<v0>>, ReturnObe(set_initial_velocity(obe, v0)), <<>>)

Set_initial_rho ==
  /\ CanRun
  /\ \E rho0 \in RhoInputs(obe) :
       Ran("set_initial_rho", <<rho0>>, set_initial_rho(obe, rho0), <<>>)

Set_initial_rho_equally ==
  /\ CanRun
  /\ Ran("set_initial_rho_equally", <<>>, set_initial_rho_equally(obe), <<>>)

Set_initial_rho_from_populations ==
  /\ CanRun
  /\ \E Npop \in NpopInputs(obe) :
       Ran("set_initial_rho_from_populations", <<Npop>>,
           set_initial_rho_from_populations(obe, Npop), <<>>)

Set_initial_rho_from_rateeq ==
  /\ CanRun
  /\ \E Neq \in NeqInputs(obe) :
       Ran("set_initial_rho_from_rateeq", <<Neq>>, set_initial_rho_from_rateeq(obe, Neq), <<>>)

Evolve_density ==
  /\ CanRun
  /\ \E solution \in Solutions(obe, 0) :
       Ran("evolve_density", <<solution>>, evolve_density(obe, <<0, 1>>, solution), <<>>)

Evolve_motion ==
  /\ CanRun
  /\ \E solution \in {RunSolution(obe, 0, 1, 2, b) : b \in {"", "nan"}}, merge \in Merges :
       Ran("evolve_motion", <<solution, merge>>,
           evolve_motion(obe, <<0, 1>>, solution, merge), <<>>)

Drhodt ==
  /\ CanRun
  /\ \E rho \in {RunRho(obe, 1), <<COne>>}, Eq \in RunEq(obe), B \in RunB :
       /\ Len(rho) = 1 => B = Zero3
       /\ \E r \in {drhodt(obe, obe.r0, 0, rho, Eq, B)} :
            Ran("drhodt", <<rho, Eq, B>>, r, r.out)

Full_OBE_ev ==
  /\ CanRun
  /\ \E Eq \in RunEq(obe), B \in {Zero3, <<2, 0, 3>>} :
       \E r \in {full_OBE_ev(obe, obe.r0, 0, Eq, B)} :
         Ran("full_OBE_ev", <<Eq, B>>, r, r.out)

Full_OBE_ev_scratch ==
  /\ CanRun
  /\ \E Eq \in RunEq(obe) \cup {AboveEq(obe)}, B \in {Zero3, <<3, 3, 3>>} :
       \E r \in {full_OBE_ev_scratch(obe, obe.r0, 0, Eq, B)} :
         Ran("full_OBE_ev_scratch", <<Eq, B>>, r, r.out)

Force_from_rho ==
  /\ CanRun
  /\ \E a \in {1}, delE \in RunDelE(obe), delB \in RunDelB, merge \in Merges :
       \E r \in {force_from_rho(obe, obe.r0, 0, RunRho(obe, a), delE, delB, merge)} :
         Ran("force_from_rho", <<RunRho(obe, a), delE, delB, merge>>, r, r.out)

Force_from_sol ==
  /\ CanRun
  /\ \E a \in {0, 1} :
       \E delE \in {RunBeamGradients(obe, 2, a)} :
         \E r \in {force_from_sol(obe, delE)} :
           Ran("force_from_sol", <<delE>>, r, r.out)

Find_equilibrium_force ==
  /\ CanRun
  /\ \E inp \in EquilibriumInputs(obe) :
       \E r \in {find_equilibrium_force(obe, inp.kwargs, inp.windows, inp.grads)} :
         Ran("find_equilibrium_force", <<inp>>, r, r.out)

Generate_force_profile ==
  /\ CanRun
  /\ \E args \in ProfileInputs(obe) :
       Ran("generate_force_profile", args,
           generate_force_profile(obe, args[1], args[2], args[3], args[4], args[5].kwargs,
                                  <<[Neq |-> args[6], windows |-> args[5].windows,
                                     grads |-> args[5].grads]>>),
           <<>>)

Reshape_sol ==
  /\ CanRun
  /\ \E r \in {reshape_sol(obe)} : Ran("reshape_sol", <<>>, r, r.out)

NextRun ==
  \/ Set_initial_position
  \/ Set_initial_velocity
  \/ Set_initial_rho
  \/ Set_initial_rho_equally
  \/ Set_initial_rho_from_populations
  \/ Set_initial_rho_from_rateeq
  \/ Evolve_density
  \/ Evolve_motion
  \/ Drhodt
  \/ Full_OBE_ev
  \/ Full_OBE_ev_scratch
  \/ Force_from_rho
  \/ Force_from_sol
  \/ Find_equilibrium_force
  \/ Generate_force_profile
  \/ Reshape_sol

SpecRun == InitRun /\ [][NextRun]_vars

(***************************************************************************)
(* Properties of the hamiltonian object, checked under Spec.               *)
(***************************************************************************)
\* The conjugate transpose of each of the three components
ConjTranspose3(M3) ==
  [q \in 1..3 |-> [r \in 1..Len(M3[q][1]) |-> [c \in 1..Len(M3[q]) |-> CConj(M3[q][c][r])]]]

OffDiagonalPairsMatch(blocks) ==
  \A i \in 1..Len(blocks), j \in 1..Len(blocks) :
    i # j =>
      \/ blocks[i][j] = <<>> /\ blocks[j][i] = <<>>
      \/ /\ Len(blocks[i][j]) = 1
         /\ Len(blocks[j][i]) = 1
         /\ blocks[j][i][1].matrix = ConjTranspose3(blocks[i][j][1].matrix)

\* C1: the cells (i, j) and (j, i), i # j, of the blocks array are both
\* empty or both filled, and the block at (j, i) is then the conjugate
\* transpose of the block at (i, j), component by component; so after every
\* add_* call and in the hamiltonian diag_static_field returns
C1_DipolePairsAreAdjoint ==
  /\ OffDiagonalPairsMatch(ham.blocks)
  /\ (last.op = "diag_static_field" /\ last.res = "ok") => OffDiagonalPairsMatch(rot.blocks)

\* A rotated hamiltonian with a dipole block has been returned
C1_Witness ==
  /\ last.op = "diag_static_field"
  /\ last.res = "ok"
  /\ last.field.val < 0
  /\ NBlocks(rot) = 2
  /\ rot.blocks[1][2] # <<>>
  /\ ham.blocks[1][2] # <<>>

HasBlockLabelled(h, label) ==
  \E i \in 1..NBlocks(h), j \in 1..NBlocks(h) : CellHasLabel(h.blocks[i][j], label)

\* The cell that holds the block with this label
CellLabelled(h, label) ==
  LET ij == CHOOSE x \in (1..NBlocks(h)) \X (1..NBlocks(h)) :
                CellHasLabel(h.blocks[x[1]][x[2]], label)
  IN h.blocks[ij[1]][ij[2]]

BlockLabelled(h, label) ==
  LET c == CellLabelled(h, label)
  IN c[CHOOSE k \in 1..Len(c) : c[k].label = label]

\* C2 as claimed: add_H_0_block for a label that has only a magnetic block,
\* of the dimension of H, succeeds and attaches the energy block to that
\* manifold; the number of manifolds, state_labels and ns stay as they were
C2_AttachToMagneticOnly ==
  [][(/\ last'.op = "add_H_0_block"
      /\ Rows(last'.M[1]) = Cols(last'.M[1])
      /\ HasBlockLabelled(ham, <<last'.label1, "mu_q", last'.label1>>)
      /\ ~HasBlockLabelled(ham, <<last'.label1, "H_0", last'.label1>>)
      /\ BlockLabelled(ham, <<last'.label1, "mu_q", last'.label1>>).n = Rows(last'.M[1]))
     => (/\ last'.res = "ok"
         /\ NBlocks(ham') = NBlocks(ham)
         /\ ham'.state_labels = ham.state_labels
         /\ ham'.ns = ham.ns
         /\ HasBlockLabelled(ham', <<last'.label1, "H_0", last'.label1>>)
         /\ HasBlockLabelled(ham', <<last'.label1, "mu_q", last'.label1>>))]_vars

\* C3: add_H_0_block raises when H is not square, when the label already
\* has an energy block, and when the label has a magnetic block of another
\* dimension than H; the hamiltonian is then as it was before the call
C3_AddH0FailsCleanly ==
  [][(/\ last'.op = "add_H_0_block"
      /\ \/ Rows(last'.M[1]) # Cols(last'.M[1])
         \/ HasBlockLabelled(ham, <<last'.label1, "H_0", last'.label1>>)
         \/ /\ HasBlockLabelled(ham, <<last'.label1, "mu_q", last'.label1>>)
            /\ BlockLabelled(ham, <<last'.label1, "mu_q", last'.label1>>).n # Rows(last'.M[1]))
     => (/\ last'.res # "ok"
         /\ ham'.blocks = ham.blocks
         /\ ham'.state_labels = ham.state_labels
         /\ ham'.ns = ham.ns
         /\ ham'.n = ham.n
         /\ ham'.laser_keys = ham.laser_keys)]_vars

\* A second energy block for a label that holds an energy and a magnetic
\* block was refused
C3_Witness ==
  /\ last.op = "add_H_0_block"
  /\ last.res # "ok"
  /\ Rows(last.M[1]) = Cols(last.M[1])
  /\ HasBlockLabelled(ham, <<last.label1, "H_0", last.label1>>)
  /\ HasBlockLabelled(ham, <<last.label1, "mu_q", last.label1>>)
  /\ ~last.changed

IsRegistered(h, lbl) == \E i \in 1..Len(h.state_labels) : h.state_labels[i] = lbl

\* C4: add_d_q_block raises when a label names no registered manifold or the
\* trailing shape of d_q is not (dimension of label1, dimension of label2);
\* no cell of the blocks array and no laser key is then added or changed
C4_AddDqFailsCleanly ==
  [][(/\ last'.op = "add_d_q_block"
      /\ \/ ~IsRegistered(ham, last'.label1)
         \/ ~IsRegistered(ham, last'.label2)
         \/ /\ manifold_of_label(ham, last'.label1).err = "ok"
            /\ manifold_of_label(ham, last'.label2).err = "ok"
            /\ <<Len(last'.M[1]), Len(last'.M[1][1])>> #
                 <<manifold_of_label(ham, last'.label1).n, manifold_of_label(ham, last'.label2).n>>)
     => (/\ last'.res # "ok"
         /\ ham'.blocks = ham.blocks
         /\ ham'.laser_keys = ham.laser_keys)]_vars

\* A dipole block whose second dimension is wrong was refused
C4_Witness ==
  /\ last.op = "add_d_q_block"
  /\ last.res # "ok"
  /\ manifold_of_label(ham, last.label1).err = "ok"
  /\ manifold_of_label(ham, last.label2).err = "ok"
  /\ Len(last.M[1]) = manifold_of_label(ham, last.label1).n
  /\ Len(last.M[1][1]) # manifold_of_label(ham, last.label2).n
  /\ ~last.changed

\* C5: for registered manifolds a before b, add_d_q_block(b, a, d) leaves
\* the hamiltonian as add_d_q_block(a, b, d^dagger) does: d^dagger is the
\* block at (ord a, ord b), d the block at (ord b, ord a), and the one laser
\* key recorded is a->b with the value (ord a, ord b)
C5_DirectionIsCanonical ==
  [][(/\ last'.op = "add_d_q_block"
      /\ last'.res = "ok"
      /\ manifold_of_label(ham, last'.label1).ind > manifold_of_label(ham, last'.label2).ind)
     => LET b == last'.label1
            a == last'.label2
            d == last'.M
            ia == manifold_of_label(ham, a).ind
            ib == manifold_of_label(ham, b).ind
        IN /\ ham' = add_d_q_block(ham, a, b, ConjTranspose3(d), 1, 1).h
           /\ ham'.blocks[ia][ib][1].matrix = ConjTranspose3(d)
           /\ ham'.blocks[ib][ia][1].matrix = d
           /\ ham'.laser_keys =
                {p \in ham.laser_keys : p[1] # <<a, b>>} \cup {<<(<<a, b>>), (<<ia, ib>>)>>}
           /\ ia < ib]_vars

\* A dipole block was given from the later manifold to the earlier one
C5_Witness ==
  /\ last.op = "add_d_q_block"
  /\ last.res = "ok"
  /\ NBlocks(ham) = 2
  /\ last.label1 = ham.state_labels[2]
  /\ last.label2 = ham.state_labels[1]
  /\ ham.state_labels[1] # ham.state_labels[2]
  /\ ham.blocks[2][1][1].matrix = last.M
  /\ DictKeys(ham.laser_keys) = {<<last.label2, last.label1>>}

\* C6: a run of make_full_matrices never changes blocks, state_labels, ns
\* or laser_keys, and a run that follows a run leaves H_0, mu_q, d_q_bare,
\* d_q_star, d_q and the Cartesian copies as the first run made them
C6_MakeFullMatricesIdempotent ==
  [][(last'.op = "make_full_matrices" /\ last'.res = "ok")
     => (/\ ham'.blocks = ham.blocks
         /\ ham'.state_labels = ham.state_labels
         /\ ham'.ns = ham.ns
         /\ ham'.laser_keys = ham.laser_keys
         /\ (last.op = "make_full_matrices" /\ last.res = "ok")
              => (/\ ham'.H_0 = ham.H_0
                  /\ ham'.mu_q = ham.mu_q
                  /\ ham'.d_q_bare = ham.d_q_bare
                  /\ ham'.d_q_star = ham.d_q_star
                  /\ ham'.d_q = ham.d_q
                  /\ ham'.mu = ham.mu
                  /\ ham'.d = ham.d))]_vars

\* The second of two runs on a hamiltonian with energies, magnetic moments
\* and a dipole block
C6_Witness ==
  /\ last.op = "make_full_matrices"
  /\ last.res = "ok"
  /\ last.run = 2
  /\ ham.H_0 # Zeros(ham.n, ham.n)
  /\ ham.d_q_bare # {}

\* C7: after make_full_matrices the keys of d_q_bare and the keys of
\* d_q_star are the keys of laser_keys
C7_DipoleKeysAreLaserKeys ==
  (last.op = "make_full_matrices" /\ last.res = "ok")
    => /\ DictKeys(ham.d_q_bare) = DictKeys(ham.laser_keys)
       /\ DictKeys(ham.d_q_star) = DictKeys(ham.laser_keys)

\* A run on a hamiltonian whose dipole block was given in reverse
C7_Witness ==
  /\ last.op = "make_full_matrices"
  /\ last.res = "ok"
  /\ ham.state_labels = <<"e", "g">>
  /\ DictKeys(ham.d_q_bare) = {<<"e", "g">>}

\* What return_full_H does with a mapping that holds vec under key
WithMapping(h, key, vec, Bq) == return_full_H(h, EqDict({<<key, vec>>}), Bq)

\* C8 as claimed: a list or array Eq is applied to the one registered
\* transition, whatever its labels, as a mapping with that key is
C8_ListDrivesSoleTransition ==
  [][(/\ last'.op = "return_full_H"
      /\ last'.Eq.list
      /\ Cardinality(DictKeys(ham.laser_keys)) = 1)
     => LET key == CHOOSE y \in DictKeys(ham.laser_keys) : TRUE
            m == WithMapping(ham, key, last'.Eq.vec, last'.Bq)
        IN /\ last'.res = m.res
           /\ ret' = m.H
           /\ ham' = m.h]_vars

\* C8: a list or array Eq is applied to the transition g->e, as the
\* mapping {g->e: Eq} is; without a transition of that key the call raises
C8_ListDrivesGToE ==
  [][(last'.op = "return_full_H" /\ last'.Eq.list)
     => LET m == WithMapping(ham, <<"g", "e">>, last'.Eq.vec, last'.Bq)
        IN /\ last'.res = m.res
           /\ ret' = m.H
           /\ ham' = m.h
           /\ (<<"g", "e">> \notin DictKeys(ham'.d_q_bare)) => last'.res # "ok"]_vars

\* A list Eq gave the full hamiltonian of a g->e transition
C8_Witness ==
  /\ last.op = "return_full_H"
  /\ last.Eq.list
  /\ last.res = "ok"
  /\ DictKeys(ham.laser_keys) = {<<"g", "e">>}
  /\ ret # ham.H_0

(***************************************************************************)
(* Properties of the obe object, checked under SpecObe.                    *)
(***************************************************************************)
\* The sum over the three components and the states below ii of the squared
\* magnitude of the aggregated dipole element
TotalDecayRate(h, ii) ==
  SumSeq([j \in 1..(ii - 1) |->
            abs2(h.d_q[1][j][ii]) + abs2(h.d_q[2][j][ii]) + abs2(h.d_q[3][j][ii])])

\* The two rates differ by more than 1e-7 plus 1e-5 of the larger of them
DifferBeyondTolerance(r1, r2) ==
  LET hi == IF r1 >= r2 THEN r1 ELSE r2
      lo == IF r1 >= r2 THEN r2 ELSE r1
  IN 10000000 * (hi - lo) > 1 + 100 * hi

SomeManifoldHasUnequalRates(h) ==
  \E ll \in 1..NBlocks(h) :
    \E i \in manifold_states(h.ns, ll), j \in manifold_states(h.ns, ll) :
      DifferBeyondTolerance(TotalDecayRate(h, i), TotalDecayRate(h, j))

AllRatesEqual(h) ==
  \A ll \in 1..NBlocks(h) :
    \A i \in manifold_states(h.ns, ll), j \in manifold_states(h.ns, ll) :
      TotalDecayRate(h, i) = TotalDecayRate(h, j)

PopulationRowsSumToZero(M, n) ==
  \A c \in 1..(n * n) :
    CSumSeq([i \in 1..n |-> M[density_index(i, i, n)][c]]) = CZero

\* The sum of the population entries of M applied to the density vector rho
PopulationSum(M, rho, n) ==
  CSumSeq([i \in 1..n |->
             CSumSeq([c \in 1..(n * n) |-> CMul(M[density_index(i, i, n)][c], rho[c])])])

\* C10: the population rows of build_coherent_ev_submatrix(H) sum to the
\* zero row, for the matrices of H0, the magnetic and the dipole components
\* and their conjugates and for any square H, so that they contribute
\* nothing to the sum of the populations of drhodt
C10_CoherentPartConservesTrace ==
  /\ obe.state = "built"
       => LET n == obe.hamiltonian.n
          IN /\ PopulationRowsSumToZero(obe.ev_mat.H0, n)
             /\ \A q \in 1..3 : PopulationRowsSumToZero(obe.ev_mat.B[q], n)
             /\ \A p \in obe.ev_mat.E : \A q \in 1..3 : PopulationRowsSumToZero(p[2][q], n)
             /\ \A p \in obe.ev_mat.Estar : \A q \in 1..3 : PopulationRowsSumToZero(p[2][q], n)
  /\ job.kind = "build_coherent_ev_submatrix"
       => LET n == obe.hamiltonian.n
          IN /\ PopulationRowsSumToZero(job.out, n)
             /\ PopulationSum(job.out, [c \in 1..(n * n) |-> <<c, 1>>], n) = CZero

\* The operator of a matrix that is not hermitian, on an object with the
\* operators of a dipole block
C10_Witness ==
  /\ obe.state = "built"
  /\ obe.ev_mat.E # {}
  /\ job.kind = "build_coherent_ev_submatrix"
  /\ job.H # ConjT(job.H)
  /\ \A a \in 1..Len(job.H), b \in 1..Len(job.H) : job.H[a][b] # CZero

\* C11: the population rows of the decay generator of every obe object
\* sum to the zero row, so that decay leaves the sum of the populations of
\* any density vector unchanged
C11_DecayConservesTrace ==
  obe.state = "built"
    => PopulationRowsSumToZero(obe.ev_mat.decay, obe.hamiltonian.n)

\* C12: the matrices of build_transform_matrices are inverse to each other
\* on the flattened space of n^2 entries (Uinv is held in units of one half)
C12_TransformIsInvertible ==
  "U" \in obe.attrs
    => LET n == obe.hamiltonian.n
           twice == MatScale(<<2, 0>>, Eye(n * n))
       IN /\ n >= 1
          /\ Rows(obe.U) = n * n /\ Rows(obe.Uinv) = n * n
          /\ MatMul(obe.Uinv, obe.U) = twice
          /\ MatMul(obe.U, obe.Uinv) = twice

\* The matrices of an object with coherences: at least two states
C12_Witness ==
  /\ obe.state = "built"
  /\ "U" \in obe.attrs
  /\ obe.hamiltonian.n >= 2
  /\ obe.U # Eye(obe.hamiltonian.n * obe.hamiltonian.n)

\* The product Uinv @ ev_mat @ U of a transform_ev_matrix call, in units of
\* one half
TransformProduct(n, ev_mat) == MatMul(MatMul(transform_Uinv(n), ev_mat), transform_U(n))

IsReal(M) == \A r \in 1..Rows(M) : \A c \in 1..Cols(M) : M[r][c][2] = 0

\* Some entry of M, held in units of one half of 10^e, has an imaginary part
\* beyond 1e-8 in magnitude
ImagBeyondTolerance(M, e) ==
  \E r \in 1..Rows(M) : \E c \in 1..Cols(M) :
     LET twice == IF M[r][c][2] >= 0 THEN M[r][c][2] ELSE 0 - M[r][c][2]
     IN IF e = 0 THEN twice > 0 ELSE twice > 20

\* What C13 says of the results of transform_ev_matrix: real results, and
\* no error on the operator of a hermitian matrix or on a decay generator
TransformedIsReal ==
  /\ job.kind = "transform_ev_matrix"
       => /\ job.res = "ok" => (IsReal(job.out) /\ job.out = MatReal(TransformProduct(obe.hamiltonian.n, job.H)))
          /\ (job.args[1] = "commutator" /\ job.args[2] = ConjT(job.args[2])) => job.res = "ok"
          /\ job.args[1] = "decay" => job.res = "ok"
  /\ obe.state = "raised" => obe.step # "transform_ev_matrices decay"
  /\ (obe.state = "built" /\ obe.transform_into_re_im) => IsReal(obe.ev_mat.decay)

\* C13 as claimed: besides, a product with any imaginary part that is not
\* zero makes transform_ev_matrix raise
C13_AnyImaginaryPartRaises ==
  /\ TransformedIsReal
  /\ (job.kind = "transform_ev_matrix" /\ ~IsReal(TransformProduct(obe.hamiltonian.n, job.H)))
       => job.res = "ValueError"

\* C13: transform_ev_matrix returns a real matrix and does not raise on the
\* operator of a hermitian matrix and on the decay generator of an accepted
\* hamiltonian; it raises when an imaginary part of the product exceeds the
\* tolerance 1e-8 of np.allclose
C13_ImaginaryPartBeyondToleranceRaises ==
  /\ TransformedIsReal
  /\ (job.kind = "transform_ev_matrix"
        /\ ImagBeyondTolerance(TransformProduct(obe.hamiltonian.n, job.H), job.args[3]))
       => job.res = "ValueError"

\* The operator of a hermitian matrix that is not diagonal was transformed
\* on an object whose decay generator is not zero
C13_Witness ==
  /\ job.kind = "transform_ev_matrix"
  /\ job.args[1] = "commutator"
  /\ job.args[2] = ConjT(job.args[2])
  /\ ~IsDiagonalMatrix(job.args[2])
  /\ job.res = "ok"
  /\ job.out # Zeros(Rows(job.out), Rows(job.out))
  /\ obe.ev_mat.decay # Zeros(Rows(job.out), Rows(job.out))

(***************************************************************************)
(* Properties of the calls on a constructed obe object, checked under      *)
(* SpecRun.                                                                *)
(***************************************************************************)
\* Every component of the electric field of every key, and every component
\* of the magnetic field drhodt looks at, is at the threshold 1e-10 or below
AllFieldsAtOrBelowThreshold(o, Eq, B) ==
  /\ \A key \in o.laserBeams : \A ii \in 1..3 :
        abs2(DictGet(Eq, key)[ii]) <= Threshold * Threshold
  /\ \A ii \in 1..3 : return_magnetic_field(o, B).mag2[ii] <= Threshold * Threshold

\* C14: when every component of the electric field of every transition and
\* every component of the magnetic field has a magnitude at or below the
\* threshold 1e-10, drhodt(r, t, rho) is exactly ev_mat['decay']*rho +
\* ev_mat['H0']*rho, in the real and in the complex basis: no operator of a
\* field contributes
C14_NoFieldBelowThreshold ==
  (job.kind = "drhodt" /\ job.res = "ok"
     /\ AllFieldsAtOrBelowThreshold(obe, job.args[2], job.args[3]))
    => /\ job.out.field = ZeroVec(Len(job.args[1]))
       /\ job.out.main = VecAdd(MatVec(obe.ev_mat.decay, job.args[1]),
                                MatVec(obe.ev_mat.H0, job.args[1]))

\* drhodt ran in the real basis on fields that are not zero, with a
\* component of each exactly at the threshold, and returned a derivative
\* that is not zero
C14_Witness ==
  /\ job.kind = "drhodt"
  /\ job.res = "ok"
  /\ obe.transform_into_re_im
  /\ AllFieldsAtOrBelowThreshold(obe, job.args[2], job.args[3])
  /\ \E key \in obe.laserBeams : abs2(DictGet(job.args[2], key)[1]) = Threshold * Threshold
  /\ return_magnetic_field(obe, job.args[3]).mag2[3] = Threshold * Threshold
  /\ job.out.main # ZeroVec(Len(job.args[1]))

\* The calls that set the initial position, velocity or density vector
InitialConditionSetters ==
  {"set_initial_position", "set_initial_velocity", "set_initial_rho",
   "set_initial_rho_equally", "set_initial_rho_from_populations",
   "set_initial_rho_from_rateeq"}

\* C15: a call that sets the initial position, the initial velocity or the
\* initial density vector leaves the object with no stored trajectory (sol
\* is None), whatever evolve_density or evolve_motion stored before it
C15_SettersDropTrajectory ==
  (job.kind \in InitialConditionSetters /\ job.res = "ok") => obe.sol = <<>>

\* C16: set_initial_rho_from_populations fails on a population vector whose
\* length is not the number of states or that holds a NaN or an Inf, and
\* such a failure leaves the initial density vector stored before it as it
\* was
C16_PopulationsFailCleanly ==
  [][(job'.kind = "set_initial_rho_from_populations"
        /\ "rho0" \in obe.attrs
        /\ (Len(job'.args[1].vals) # obe.hamiltonian.n \/ job'.args[1].bad # ""))
       => (job'.res = "ValueError" /\ obe'.rho0 = obe.rho0)]_vars

\* The window w of a find_equilibrium_force call met the relative or the
\* absolute criterion; seen are the forces of the windows it integrated, K
\* the number of samples of a window
WindowMet(seen, w, K, kwargs) ==
  converged(IF w = 1 THEN <<>> ELSE seen[w - 1], seen[w], K, kwargs.rel, kwargs.abs)

\* What C17 says of the count a find_equilibrium_force call returned
CountTellsConvergence(kwargs, out) ==
  LET met == \E w \in 1..Len(out.windows) : WindowMet(out.windows, w, 2, kwargs)
  IN /\ out.iterations = kwargs.itermax <=> ~met
     /\ met => out.iterations < kwargs.itermax
     /\ (kwargs.itermax = 1 /\ kwargs.rel.num = 0 /\ kwargs.abs.num = 0) => out.iterations = 1

TotalGradient(delE, k) ==
  {<<p[1], MatSum([ll \in 1..Len(p[2]) |-> p[2][ll][k]], 3)>> : p \in delE}

\* C18: at every sample k of the stored trajectory, the total force that
\* force_from_sol returns is force_from_rho(r_k, t_k, rho_k) for the same
\* gradients of the laser fields (here in a magnetic field without a
\* gradient), in both bases and with or without magnetic forces
C18_SolForceIsRhoForce ==
  (job.kind = "force_from_sol" /\ job.res = "ok")
    => \A k \in 1..Len(obe.sol[1].t) : \A x \in 1..3 :
          job.out.f[x][k] =
            force_from_rho(obe, obe.sol[1].y[k].r, obe.sol[1].t[k], obe.sol[1].y[k].rho,
                           TotalGradient(job.args[1], k), [i \in 1..3 |-> Zero3],
                           "stashed_upstream").out[x]

\* C19: once the constructor has returned, no call (drhodt, full_OBE_ev,
\* full_OBE_ev_scratch, evolve_density, evolve_motion, force_from_rho,
\* force_from_sol, find_equilibrium_force, generate_force_profile, or a
\* setter of an initial condition) changes an entry or a key of ev_mat
C19_OperatorsAreFrozen ==
  [][obe.state = "built" => obe'.ev_mat = obe.ev_mat]_vars

\* full_OBE_ev added operators of fields to the sum of the decay generator
\* and of the operator of H0, neither of them zero, on an object that an
\* earlier call had changed
C19_Witness ==
  /\ job.kind = "full_OBE_ev"
  /\ job.res = "ok"
  /\ last.calls >= 2
  /\ job.out.field # Zeros(Rows(job.out.main), Rows(job.out.main))
  /\ obe.ev_mat.decay # Zeros(Rows(job.out.main), Rows(job.out.main))
  /\ obe.ev_mat.H0 # Zeros(Rows(job.out.main), Rows(job.out.main))

\* C20: once a generate_force_profile run has completed, the profile kept
\* under the name of that run is not changed and not replaced by a later
\* generate_force_profile run; stated here of the later runs without a
\* name, which take the number of the profiles for their name
C20_CompletedProfilesAreKept ==
  [][(job.kind = "generate_force_profile" /\ job.res = "ok" /\ job.args[3] # ""
        /\ job'.kind = "generate_force_profile" /\ job'.args[3] = "")
       => (job.args[3] \in DictKeys(obe'.profile)
             /\ DictGet(obe'.profile, job.args[3]) = DictGet(obe.profile, job.args[3]))]_vars

(***************************************************************************)
(* Further properties of the hamiltonian object, checked under Spec.       *)
(***************************************************************************)
\* C21: the Hamiltonian that a diag_static_field call returned is not
\* modified by a later diag_static_field call on the same source, and no
\* call modifies the blocks of the source
C21_RotatedIsNewInstance ==
  [][last'.op = "diag_static_field"
       => /\ ham'.blocks = ham.blocks
          /\ (last.op = "diag_static_field" /\ last.res = "ok") => rot' = rot]_vars

(***************************************************************************)
(* Further properties of the operators of an obe object, checked under     *)
(* SpecObe.                                                                *)
(***************************************************************************)
\* The density vector of the matrix rho: rho[i][j] at density_index(i, j)
flatten_rho(rho, n) ==
  [r \in 1..(n * n) |-> rho[row_of_index(r, n)][col_of_index(r, n)]]

\* The commutator H*rho - rho*H
Commutator(H, rho) == MatSub(MatMul(H, rho), MatMul(rho, H))

\* Density matrices of n states: each matrix unit, with a real and with an
\* imaginary entry, and a matrix with no zero entry that is not hermitian
DensityInputs(n) ==
  {[r \in 1..n |-> [c \in 1..n |-> IF r = a /\ c = b THEN v ELSE CZero]] :
      a \in 1..n, b \in 1..n, v \in {COne, CI}}
    \cup {[r \in 1..n |-> [c \in 1..n |-> <<r + 2 * c, r - c + 1>>]]}

\* C22 as stated: build_coherent_ev_submatrix(H) applied to the flattened
\* rho is the flattening of i*[H, rho] = i*(H*rho - rho*H)
C22_OperatorIsPlusICommutator ==
  job.kind = "build_coherent_ev_submatrix"
    => LET n == obe.hamiltonian.n
       IN \A rho \in DensityInputs(n) :
            MatVec(job.out, flatten_rho(rho, n))
              = flatten_rho(MatScale(CI, Commutator(job.H, rho)), n)

\* C22: for every square H and every rho, build_coherent_ev_submatrix(H)
\* applied to the flattened rho (rho[i][j] at index i + j*n) is the
\* flattening of -i*[H, rho] = i*(rho*H - H*rho)
C22_OperatorIsMinusICommutator ==
  job.kind = "build_coherent_ev_submatrix"
    => LET n == obe.hamiltonian.n
       IN \A rho \in DensityInputs(n) :
            MatVec(job.out, flatten_rho(rho, n))
              = flatten_rho(MatScale(CNeg(CI), Commutator(job.H, rho)), n)

\* The operator of a matrix H with no zero entry on three states, where H
\* does not commute with every density matrix
C22_Witness ==
  /\ job.kind = "build_coherent_ev_submatrix"
  /\ obe.hamiltonian.n = MaxStates
  /\ \A a \in 1..Len(job.H), b \in 1..Len(job.H) : job.H[a][b] # CZero
  /\ \E rho \in DensityInputs(obe.hamiltonian.n) :
       MatVec(job.out, flatten_rho(rho, obe.hamiltonian.n))
         # [r \in 1..(obe.hamiltonian.n * obe.hamiltonian.n) |-> CZero]

(***************************************************************************)
(* Further properties of the calls on a constructed obe object, checked    *)
(* under SpecRun.                                                          *)
(***************************************************************************)
\* The state a solution ended with
FinalState(solution) == solution.y[Len(solution.y)]

\* C23: the k-th integration of a find_equilibrium_force call spans
\* [k*deltat, (k+1)*deltat]; for k >= 1 it starts from the density vector,
\* the position and the velocity the window before it ended with; no
\* window is integrated after one that met a criterion, and no more than
\* itermax windows are integrated
C23_WindowsChain ==
  (job.kind = "find_equilibrium_force" /\ job.out # <<>>)
    => LET inp == job.args[1]
           calls == job.out.calls
       IN /\ Len(calls) <= inp.kwargs.itermax
          /\ Len(calls) = Len(job.out.windows)
          /\ \A w \in 1..Len(calls) :
               calls[w].t_span = <<(w - 1) * inp.kwargs.deltat, w * inp.kwargs.deltat>>
          /\ \A w \in 2..Len(calls) :
               calls[w].y0 = [rho |-> FinalState(inp.windows[w - 1]).rho,
                              v |-> FinalState(inp.windows[w - 1]).v,
                              r |-> FinalState(inp.windows[w - 1]).r]
          /\ \A w \in 1..(Len(calls) - 1) : ~WindowMet(job.out.windows, w, 2, inp.kwargs)

\* A call that integrated two windows, the first of which ended away from
\* its start with a position that differs from its velocity
C23_Witness ==
  /\ job.kind = "find_equilibrium_force"
  /\ job.res = "ok"
  /\ Len(job.out.calls) = 2
  /\ FinalState(job.args[1].windows[1]).r # FinalState(job.args[1].windows[1]).v
  /\ FinalState(job.args[1].windows[1]).rho # job.out.calls[1].y0.rho
  /\ job.out.calls[2].t_span = <<2, 4>>

\* Every component of the electric field of every key, and every component
\* of the magnetic field, is above the threshold 1e-10
AllFieldsAboveThreshold(o, Eq, B) ==
  /\ \A key \in o.laserBeams : \A ii \in 1..3 : above_threshold(abs2(DictGet(Eq, key)[ii]))
  /\ \A ii \in 1..3 : above_threshold(return_magnetic_field(o, B).mag2[ii])

\* C24: for fields whose components are all above the threshold,
\* full_OBE_ev_scratch returns, and what it returns is the matrix that
\* full_OBE_ev assembles from the stored operators for the same fields
C24_ScratchAgreesWithStored ==
  (job.kind = "full_OBE_ev_scratch"
     /\ AllFieldsAboveThreshold(obe, job.args[1], job.args[2]))
    => LET stored == full_OBE_ev(obe, obe.r0, 0, job.args[1], job.args[2])
       IN /\ job.res = "ok"
          /\ job.out = MatAdd(stored.out.main, stored.out.field)

\* The pairs of the states n..n+ns[ll]-1 of the block ll with ii <= jj
magnetic_pairs_upper_triangle(h, ll) ==
  LET n == SumSeq(Prefix(h.ns, ll - 1))
  IN {p \in (n..(n + h.ns[ll] - 1)) \X (n..(n + h.ns[ll] - 1)) : p[2] >= p[1]}

\* The magnetic force along x of the upper-triangular pairs of every
\* manifold that has a magnetic block
UpperTriangleMagneticForce(o, rho, delB, x) ==
  LET h == o.hamiltonian
  IN SumSeq([ll \in 1..NBlocks(h) |->
       IF muBq_of(h.blocks[ll][ll]) = <<>> THEN 0
       ELSE LET pairs == SetToSeq(magnetic_pairs_upper_triangle(h, ll))
            IN SumSeq([p \in 1..Len(pairs) |->
                 magnetic_pair_force(o, ll, rho, delB, x, pairs[p][1], pairs[p][2])])])

\* C25: with magnetic forces enabled, force_from_rho visits, for every
\* manifold with a magnetic block, exactly the pairs n <= ii <= jj <=
\* n+ns-1 of its states, whatever the offset n of the manifold, and
\* subtracts the contribution of each of them from the force of the lasers
C25_MagneticPairsAreUpperTriangle ==
  (job.kind = "force_from_rho" /\ job.res = "ok" /\ obe.include_mag_forces
     /\ job.args[4] = "stashed_upstream")
    => /\ \A ll \in 1..NBlocks(obe.hamiltonian) :
            muBq_of(obe.hamiltonian.blocks[ll][ll]) # <<>>
              => magnetic_pairs(obe.hamiltonian, ll)
                   = magnetic_pairs_upper_triangle(obe.hamiltonian, ll)
       /\ \A x \in 1..3 :
            job.out[x] =
              force_from_rho(obe, obe.r0, 0, job.args[1], job.args[2], job.args[3],
                             "upstream").out[x]
                - UpperTriangleMagneticForce(obe, job.args[1], job.args[3], x)

(***************************************************************************)
(* The dependence of diag_static_field on the calls before it, checked     *)
(* under Spec.                                                             *)
(***************************************************************************)
\* What diag_static_field returns for the field on a source with the blocks
\* of h on which it was never called before
FirstDiagStaticField(h, field) ==
  diag_static_field([h EXCEPT !.attrs = @ \ {"rotated_hamiltonian", "U"}], NewHamiltonian, field)

\* C26: the energy blocks and the dipole blocks of the Hamiltonian that
\* diag_static_field returns for a field are those it returns for that
\* field on a source it was never called on before, whatever the field of
\* the call before it was
C26_RotatedDependsOnFieldOnly ==
  [][(/\ last.op = "diag_static_field" /\ last.res = "ok"
      /\ rot.blocks = FirstDiagStaticField(ham, last.field).rot.blocks
      /\ last'.op = "diag_static_field" /\ last'.res = "ok")
       => rot'.blocks = FirstDiagStaticField(ham', last'.field).rot.blocks]_vars

(***************************************************************************)
(* The ends of find_equilibrium_force, checked under SpecRun.              *)
(***************************************************************************)
\* C27: for every itermax >= 0, find_equilibrium_force on an object whose
\* initial density vector is set, with windows whose integration meets no
\* NaN and no Inf, returns without raising, with a count of iterations
\* between 0 and itermax
C27_EveryBoundReturns ==
  [][(job'.kind = "find_equilibrium_force" /\ job'.args[1].kwargs.itermax >= 0
        /\ "rho0" \in obe.attrs
        /\ Len(obe.rho0) = obe.hamiltonian.n * obe.hamiltonian.n
        /\ \A w \in 1..Len(job'.args[1].windows) : job'.args[1].windows[w].bad = "")
       => (job'.res = "ok" /\ job'.out.iterations \in 0..job'.args[1].kwargs.itermax)]_vars

\* C28: a find_equilibrium_force call never takes its first window for
\* converged, whatever the force of that window, zero included: a call that
\* returned before its bound integrated at least two windows and returns a
\* count of iterations of 1 or more, and a call with itermax=1 that
\* returned integrated one window and returns the count 1
C28_FirstWindowNeverConverges ==
  (job.kind = "find_equilibrium_force" /\ job.res = "ok")
    => LET out == job.out
           kwargs == job.args[1].kwargs
       IN /\ out.iterations < kwargs.itermax
               => (Len(out.calls) >= 2 /\ out.iterations >= 1)
          /\ kwargs.itermax = 1 => (out.iterations = 1 /\ Len(out.calls) = 1)

\* A call with itermax=1 returned on a first window whose force is zero,
\* with thresholds that are not zero
C28_Witness ==
  /\ job.kind = "find_equilibrium_force"
  /\ job.res = "ok"
  /\ job.args[1].kwargs.itermax = 1
  /\ job.args[1].kwargs.rel.num > 0
  /\ job.args[1].kwargs.abs.num > 0
  /\ job.out.windows = <<Zero3>>
  /\ job.out.iterations = 1

(***************************************************************************)
(* The full matrices behind return_full_H, checked under Spec.             *)
(***************************************************************************)
\* What return_full_H returns on an object with the blocks of h whose full
\* matrices are assembled anew
FullHOfBlocks(h, Eq, Bq) == return_full_H([h EXCEPT !.attrs = @ \ {"H_0"}], Eq, Bq)

\* C29: the matrix a return_full_H call returns is the one assembled from
\* the blocks the object has at the call, also when blocks were added
\* after an earlier return_full_H or make_full_matrices
C29_FullHReflectsBlocks ==
  [][(last'.op = "return_full_H" /\ last'.res = "ok")
       => ret' = FullHOfBlocks(ham, last'.Eq, last'.Bq).H]_vars

(***************************************************************************)
(* reshape_sol against the flattening of density_index, checked under      *)
(* SpecRun.                                                                *)
(***************************************************************************)
\* The element rho_ij of the density vector x of the object o (ii, jj
\* 1-based): the entry density_index(i, j) in the complex basis; in the
\* real basis x[density_index(i, j)] + i*x[density_index(j, i)] for i < j,
\* its complex conjugate for the pair exchanged, and the entry itself on
\* the diagonal
ElementOfVector(o, x, ii, jj) ==
  LET n == o.hamiltonian.n
      lo == IF ii < jj THEN ii ELSE jj
      hi == IF ii < jj THEN jj ELSE ii
      upper == CAdd(x[density_index(lo, hi, n)], CMul(CI, x[density_index(hi, lo, n)]))
  IN IF ~o.transform_into_re_im \/ ii = jj THEN x[density_index(ii, jj, n)]
     ELSE IF ii < jj THEN upper ELSE CConj(upper)

\* C30: at every sample of the stored solution, the entry [i, j] of the
\* matrix reshape_sol returns is the element rho_ij that density_index(i, j)
\* addresses in the density vector of that sample, in both bases
C30_ReshapeInvertsFlattening ==
  (job.kind = "reshape_sol" /\ job.res = "ok")
    => \A k \in 1..Len(obe.sol[1].y) :
         \A ii \in 1..obe.hamiltonian.n, jj \in 1..obe.hamiltonian.n :
            job.out[k][ii][jj] = ElementOfVector(obe, obe.sol[1].y[k].rho, ii, jj)

=============================================================================
